---- MODULE Spec2Model ----
(***************************************************************************)
(* Component registry of the smartknob firmware: ComponentManager          *)
(* (components/component_manager.cpp), the component variants it creates   *)
(* (components/multipleChoice, components/toggle) and the protocol handler *)
(* of RootTask::run that drives it (root_task.cpp).                        *)
(*                                                                         *)
(* Conventions.  A component id is a number: 0 is the empty string, 1..    *)
(* NumIds are distinct non-empty strings.  A knob position is given in     *)
(* hundredths (100 is position 1).  A shared_ptr<Component> is a handle    *)
(* into heap; an instance lives while a handle to it is held.              *)
(***************************************************************************)
EXTENDS Integers, Sequences, FiniteSets, TLC

\* ------------------------------------------------------------------ bounds
\* number of distinct non-empty component ids the callers use
NumIds == 2

\* ------------------------------------------------------- program constants
\* "if (config_.options_count > 20) ... config_.options_count = 20"
MaxOptionsLimit == 20

\* nullptr, for a handle
NULL == 0
\* the empty string, for an id
EmptyId == 0
\* the string "ONBOARDING", which is no component's id
OnboardingId == -1
Ids == 1 .. NumIds
AnyId == 0 .. NumIds

Types == {"TOGGLE", "MULTI_CHOICE", "OTHER"}
Tags == {"toggle_tag", "multi_choice_tag", "none"}

\* ------------------------------------------------------------ motor config
\* PB_SmartKnobConfig, the fields the registry and its claims read
MotorConfig(id, position, min_position, max_position) ==
    [id |-> id, position |-> position,
     min_position |-> min_position, max_position |-> max_position]

\* blocked_motor_config: position 0 of 0..0, under the id "ONBOARDING"
blocked_motor_config == MotorConfig(OnboardingId, 0, 0, 0)

\* EntityStateUpdate: default constructed, changed = false
EmptyStateUpdate == [changed |-> FALSE, app_id |-> EmptyId, index |-> 0]

\* ------------------------------------------------------- component instances
\* Component base: the id given to the constructor is kept as the identity
\* (strlcpy of component_id)
ComponentBase(type, component_id) ==
    [type |-> type,
     app_id |-> component_id,
     configured_ |-> FALSE,
     options_count |-> 0,
     options |-> <<>>,
     current_position |-> 0,
     current_state_ |-> FALSE,
     last_knob_position_ |-> 0,
     motor_config |-> blocked_motor_config]

\* clamp of the initial index and of a rounded knob position:
\* "if (p < 0) p = 0; if (p >= options_count) p = options_count - 1"
ClampPosition(p, options_count) ==
    LET lo == IF p < 0 THEN 0 ELSE p
    IN  IF lo >= options_count THEN options_count - 1 ELSE lo

\* the option texts of a multi choice payload, in the order submitted: the
\* i-th of them is named i
Options(options_count) == [i \in 1 .. options_count |-> i]

\* the empty string get_selected_text returns without a selection
NoText == 0

\* a constructor that keeps the options submitted last
MultipleChoiceKeepsLast(config) ==
    LET base == ComponentBase("MULTI_CHOICE", config.component_id)
        count == IF config.options_count > MaxOptionsLimit
                 THEN MaxOptionsLimit ELSE config.options_count
        pos == ClampPosition(config.initial_index, count)
    IN  IF config.type # "MULTI_CHOICE" THEN base
        ELSE IF config.which_component_config # "multi_choice_tag" THEN base
        ELSE [base EXCEPT !.configured_ = TRUE,
                          !.options_count = count,
                          !.options =
                              [i \in 1 .. count |->
                                  i + (config.options_count - count)],
                          !.current_position = pos,
                          !.motor_config =
                              MotorConfig(config.component_id, pos, 0, count - 1)]

\* MultipleChoice::MultipleChoice: validates, and on a wrong type or payload
\* tag returns early, leaving a constructed but unconfigured instance; the
\* payload is copied whole ("config_ = config.component_config.multi_choice"),
\* then the count is limited
MultipleChoiceNew(config) ==
    LET base == ComponentBase("MULTI_CHOICE", config.component_id)
        count == IF config.options_count > MaxOptionsLimit
                 THEN MaxOptionsLimit ELSE config.options_count
        pos == ClampPosition(config.initial_index, count)
    IN  IF config.type # "MULTI_CHOICE" THEN base
        ELSE IF config.which_component_config # "multi_choice_tag" THEN base
        ELSE [base EXCEPT !.configured_ = TRUE,
                          !.options_count = count,
                          !.options = Options(config.options_count),
                          !.current_position = pos,
                          !.motor_config =
                              MotorConfig(config.component_id, pos, 0, count - 1)]

\* MultipleChoice::get_selected_text
get_selected_text(inst) ==
    IF \/ ~inst.configured_
       \/ inst.current_position < 0
       \/ inst.current_position >= inst.options_count
    THEN NoText
    ELSE inst.options[inst.current_position + 1]

\* MultipleChoice::setState with a state string {"selected_index": N}: the
\* string is logged and not parsed, nothing is written
MultipleChoiceSetState(inst, selected_index) == inst

\* the "{}" getState returns for an unconfigured instance
EmptyState == [selected_index |-> -1, selected_text |-> NoText,
               options_count |-> -1]

\* MultipleChoice::getState: the fields of the state string it prints
MultipleChoiceGetState(inst) ==
    IF ~inst.configured_ THEN EmptyState
    ELSE [selected_index |-> inst.current_position,
          selected_text |-> get_selected_text(inst),
          options_count |-> inst.options_count]

\* MultipleChoice::configure: "return configured_", nothing is applied
MultipleChoiceConfigure(inst, config) ==
    [ok |-> inst.configured_, inst |-> inst]

\* round() of a position given in hundredths: half away from zero
RoundPosition(p100) ==
    IF p100 >= 0 THEN (p100 + 50) \div 100 ELSE -((-p100 + 50) \div 100)

\* updateStateFromKnob that reports every knob report as a change
MultipleChoiceUpdateAlwaysChanged(inst, state) ==
    LET new_position == ClampPosition(RoundPosition(state.current_position),
                                      inst.options_count)
    IN  IF ~inst.configured_
        THEN [inst |-> inst, event |-> EmptyStateUpdate, pushed |-> FALSE]
        ELSE [inst |-> [inst EXCEPT !.current_position = new_position,
                                    !.motor_config.position = new_position],
              event |-> [changed |-> TRUE, app_id |-> inst.app_id,
                         index |-> new_position],
              pushed |-> TRUE]

\* MultipleChoice::updateStateFromKnob: the new index, the event and whether
\* the instance called triggerMotorConfigUpdate()
MultipleChoiceUpdateStateFromKnob(inst, state) ==
    LET new_position == ClampPosition(RoundPosition(state.current_position),
                                      inst.options_count)
    IN  IF ~inst.configured_
        THEN [inst |-> inst, event |-> EmptyStateUpdate, pushed |-> FALSE]
        ELSE IF new_position # inst.current_position
        THEN [inst |-> [inst EXCEPT !.current_position = new_position,
                                    !.motor_config.position = new_position],
              event |-> [changed |-> TRUE, app_id |-> inst.app_id,
                         index |-> new_position],
              pushed |-> TRUE]
        ELSE [inst |-> inst, event |-> EmptyStateUpdate, pushed |-> FALSE]

\* ToggleComponent::updateMotorConfig: a two position profile that follows
\* the state; "motor_config = {}" leaves the id empty
ToggleMotorConfig(current_state) ==
    MotorConfig(EmptyId, IF current_state THEN 1 ELSE 0, 0, 1)

\* ToggleComponent::ToggleComponent: defaults, initial_state = false
ToggleDefaults(component_id) ==
    [ComponentBase("TOGGLE", component_id) EXCEPT
        !.current_state_ = FALSE,
        !.last_knob_position_ = 0,
        !.motor_config = ToggleMotorConfig(FALSE)]

\* ToggleComponent::configure: rejects a wrong type or a missing toggle
\* payload without touching the instance, otherwise applies the settings;
\* motor is the profile its updateMotorConfig() builds for the motor queue
ToggleConfigure(inst, config) ==
    IF config.type # "TOGGLE"
    THEN [ok |-> FALSE, inst |-> inst, motor |-> <<>>]
    ELSE IF config.which_component_config # "toggle_tag"
    THEN [ok |-> FALSE, inst |-> inst, motor |-> <<>>]
    ELSE [ok |-> TRUE,
          inst |-> [inst EXCEPT !.current_state_ = config.initial_state,
                                !.motor_config =
                                    ToggleMotorConfig(config.initial_state)],
          motor |-> <<ToggleMotorConfig(config.initial_state)>>]

\* ToggleComponent(mutex, config), the constructor createComponentByType
\* calls: the defaults, then the configuration ("created and configured in
\* constructor"); a constructor cannot report failure
ToggleNew(config) ==
    ToggleConfigure(ToggleDefaults(config.component_id), config).inst

\* ToggleComponent::getAdjustedPosition with snap_point_bias = 0:
\* (knob_position + 1) / 2, in hundredths
ToggleAdjustedPosition(knob_position) == (knob_position + 100) \div 2

\* the pairs (adjusted position, last knob position) one tenth apart whose
\* difference in single precision comes out under 0.1f:
\* 0.5f - 0.4f = 0.099999994 and 0.69999999f - 0.6f = 0.099999964, while
\* 0.6f - 0.5f = 0.100000024 and 0.1f = 0.100000001
SnapShort == {<<50, 40>>, <<70, 60>>}

\* "fabsf(adjusted_position - last_knob_position_) < SNAP_THRESHOLD", with
\* SNAP_THRESHOLD 0.1f, in hundredths
ToggleWithinSnapThreshold(adjusted, last_knob_position) ==
    LET diff == adjusted - last_knob_position
        position_change == IF diff < 0 THEN -diff ELSE diff
    IN  \/ position_change < 10
        \/ position_change = 10 /\ <<adjusted, last_knob_position>> \in SnapShort

\* ToggleComponent::shouldToggleState, snap_point = 0.5
ToggleShouldToggleState(inst, knob_position) ==
    LET adjusted == ToggleAdjustedPosition(knob_position)
        knob_indicates_on == adjusted > 50
    IN  /\ knob_indicates_on # inst.current_state_
        /\ ~ToggleWithinSnapThreshold(adjusted, inst.last_knob_position_)

\* ToggleComponent::handleKnobInput; in_debounce is the outcome of
\* "current_time - last_state_change_time_ < DEBOUNCE_TIME_MS"; changeState
\* calls updateMotorConfig(), motor is the profile it builds
ToggleHandleKnobInput(inst, state, in_debounce) ==
    IF in_debounce
    THEN [inst |-> inst, event |-> EmptyStateUpdate, pushed |-> FALSE,
          motor |-> <<>>]
    ELSE LET flip == ToggleShouldToggleState(inst, state.current_position)
             new_state == IF flip THEN ~inst.current_state_
                          ELSE inst.current_state_
         IN  [inst |-> [inst EXCEPT
                           !.current_state_ = new_state,
                           !.last_knob_position_ = state.current_position,
                           !.motor_config = ToggleMotorConfig(new_state)],
              event |-> IF flip
                        THEN [changed |-> TRUE, app_id |-> inst.app_id,
                              index |-> IF new_state THEN 1 ELSE 0]
                        ELSE EmptyStateUpdate,
              pushed |-> FALSE,
              motor |-> IF flip THEN <<ToggleMotorConfig(new_state)>>
                        ELSE <<>>]

\* DEBOUNCE_TIME_MS 50, in clock ticks of 25 ms
DEBOUNCE_TIME_MS == 2

\* millis() of the component's clock is counted in ticks modulo
\* ToggleClockMod, which stands for 2^32
ToggleClockMod == 4

\* a debounce test that never holds
ToggleNeverInDebounce(current_time, last_state_change_time) == FALSE

\* "current_time - last_state_change_time_ < DEBOUNCE_TIME_MS" in uint32_t
ToggleInDebounce(current_time, last_state_change_time) ==
    ((current_time - last_state_change_time + ToggleClockMod)
        % ToggleClockMod) < DEBOUNCE_TIME_MS

\* ToggleComponent::handleButtonInput: a press outside the debounce time
\* flips the state through changeState
ToggleHandleButtonInput(inst, pressed, in_debounce) ==
    IF pressed /\ ~in_debounce
    THEN [inst |-> [inst EXCEPT
                      !.current_state_ = ~inst.current_state_,
                      !.motor_config = ToggleMotorConfig(~inst.current_state_)],
          flipped |-> TRUE,
          motor |-> <<ToggleMotorConfig(~inst.current_state_)>>]
    ELSE [inst |-> inst, flipped |-> FALSE, motor |-> <<>>]

\* what follows the colon of the "state" field of a state string: true,
\* false, anything else, or no such field (or a null string)
StateValues == {"true", "false", "other", "absent"}

\* ToggleComponent::setState: changeState when the value is true or false
\* and differs from the state
ToggleSetState(inst, value) ==
    LET new_state == (value = "true") IN
    IF value \in {"true", "false"} /\ new_state # inst.current_state_
    THEN [inst |-> [inst EXCEPT !.current_state_ = new_state,
                                !.motor_config = ToggleMotorConfig(new_state)],
          changed |-> TRUE,
          motor |-> <<ToggleMotorConfig(new_state)>>]
    ELSE [inst |-> inst, changed |-> FALSE, motor |-> <<>>]

\* ToggleComponent::getState: the "state" field of the string it prints
ToggleGetState(inst) == IF inst.current_state_ THEN "true" ELSE "false"

\* the hues of the constructor: off_led_hue = 0, on_led_hue = 120
DefaultHues == [off |-> 0, on |-> 120]

\* "hue % 360; if (hue < 0) hue += 360" of ToggleComponent::configure, with
\* the remainder of C, which has the sign of the dividend
ToggleClampHue(hue) ==
    LET r == IF hue >= 0 THEN hue % 360 ELSE -((-hue) % 360)
    IN  IF r < 0 THEN r + 360 ELSE r

\* updateLEDs that renders the off hue whatever the state
ToggleLedHueOff(inst, hues) == hues.off

\* ToggleComponent::updateLEDs: the hue it hands to the LED ring
ToggleLedHue(inst, hues) ==
    IF inst.current_state_ THEN hues.on ELSE hues.off

\* virtual dispatch of Component::configure
Configure(inst, config) ==
    IF inst.type = "TOGGLE" THEN ToggleConfigure(inst, config)
    ELSE MultipleChoiceConfigure(inst, config)

\* virtual dispatch of Component::updateStateFromKnob
UpdateStateFromKnob(inst, state, in_debounce) ==
    IF inst.type = "TOGGLE" THEN ToggleHandleKnobInput(inst, state, in_debounce)
    ELSE MultipleChoiceUpdateStateFromKnob(inst, state)


\* ------------------------------------------------------------------- state
VARIABLES
    components_,        \* std::map<std::string, shared_ptr<Component>>: set of entries
    heap,               \* the live Component instances, by handle
    active_component_,  \* shared_ptr<Component>: a handle or NULL
    component_mode_,    \* RootTask::component_mode_
    last,               \* the operation that ran last: its arguments, result and calls
    pcP,                \* protocol-receive path: where it is, with its message
    pcS,                \* supervisory task: where it is, with its knob report
    component_mutex_,   \* holder of the component lock: "none", "P" or "S"
    knob_state_queue_,  \* the one-slot queue of knob reports
    latest_state_,      \* RootTask::latest_state_
    last_broadcast_state_,  \* the gate's snapshot of the state it sent last
    last_broadcast_time_,   \* the gate's time of its last send
    millis,             \* the clock, millis()
    motor_notifier,     \* the MotorNotifier of RootTask::run: its pending profile
    wire,               \* the knob state the last step handed to the protocol
    pcT,                \* where the loop of RootTask::run is in its cycle
    tick,               \* what the running cycle has done so far
    since,              \* time since the gate's last send, up to the interval
    requests,           \* profiles requested since the last loopTick
    applied,            \* the cycle's loopTick: the requests it found, the profiles
                        \* it passed to the motor task
    toggle_,            \* a ToggleComponent built with its five-argument constructor
    motor_task_queue_,  \* the queue of the motor task that component was given
    toggle_io_,         \* that component's clock, hues and LED queue, the profile
                        \* and the hue it sent last, and what its last call did
    choice_,            \* a MultipleChoice on its own
    choice_last_,       \* what was done to it last: the call and what it returned
    startup_,           \* RootTask from its constructor to its loop: where run()
                        \* is, configuration_, component_manager_, the callback
    screen_             \* app_state.screen_state in RootTask::run, the clock
                        \* and the strain sensor's power

\* the state of the supervisory loop
loopVars == <<knob_state_queue_, latest_state_, last_broadcast_state_,
              last_broadcast_time_, millis, motor_notifier, wire, pcT, tick,
              since, requests, applied>>

\* the state of the registry and of the two tasks that use it
regVars == <<components_, heap, active_component_, component_mode_,
             last, pcP, pcS, component_mutex_>>

\* a component on its own, with the motor queue it holds
toggleVars == <<toggle_, motor_task_queue_, toggle_io_>>

choiceVars == <<choice_, choice_last_>>

startVars == <<startup_>>

screenVars == <<screen_>>

componentVars == <<toggleVars, choiceVars, startVars, screenVars>>

vars == <<regVars, loopVars, componentVars>>

\* RootTask::run: "component_manager_->setMotorNotifier(&motor_notifier)"
\* right after the manager is constructed
motor_notifier_ == TRUE

\* ---------------------------------------------------------------- std::map
MapKeys(m) == {e.key : e \in m}

\* std::map::find: the mapped handle, NULL for end()
MapFind(m, id) ==
    IF id \in MapKeys(m) THEN (CHOOSE e \in m : e.key = id).ptr ELSE NULL

\* std::map::insert: keeps the existing entry when the key is present
MapInsert(m, id, p) ==
    IF id \in MapKeys(m) THEN m ELSE m \cup {[key |-> id, ptr |-> p]}

\* std::map::operator[] followed by assignment
MapAssign(m, id, p) ==
    {e \in m : e.key # id} \cup {[key |-> id, ptr |-> p]}

\* std::map::erase(iterator)
MapErase(m, id) == {e \in m : e.key # id}

\* the handles some shared_ptr still holds
Live(r) == {e.ptr : e \in r.components_} \cup ({r.active_component_} \ {NULL})

\* shared_ptr: an instance nobody holds any more is deleted
Release(r) ==
    [r EXCEPT !.heap = [h \in (DOMAIN r.heap) \cap Live(r) |-> r.heap[h]]]

\* operator new: an address no live instance has (two per id suffice: at
\* most one unregistered instance, the active one, can outlive its entry)
Alloc(r, id) == IF id \in DOMAIN r.heap THEN id + NumIds ELSE id

\* ------------------------------------------------- the registry as a value
\* the manager's fields with the trace of the running operation: its result,
\* the instances rendered, the profiles requested of the motor notifier, the
\* instance a knob report was forwarded to and the event returned
Reg ==
    [components_ |-> components_, heap |-> heap,
     active_component_ |-> active_component_,
     component_mode_ |-> component_mode_,
     ret |-> FALSE, activated |-> FALSE, renders |-> <<>>, pushes |-> <<>>,
     forwarded |-> NULL, event |-> EmptyStateUpdate]

\* MotorNotifier::requestUpdate(config), as the registry sees it: one more
\* profile asked of the notifier
requestUpdate(r, config) == [r EXCEPT !.pushes = Append(@, config)]

\* RootTask::setComponentMode
setComponentMode(r, mode) == [r EXCEPT !.component_mode_ = mode]

\* ComponentManager::render
render(r) ==
    IF r.active_component_ # NULL
    THEN [r EXCEPT !.renders = Append(@, r.active_component_)]
    ELSE r

\* ComponentManager::deactivateAll
deactivateAll(r) ==
    IF r.active_component_ # NULL
    THEN Release(setComponentMode([r EXCEPT !.active_component_ = NULL], FALSE))
    ELSE r

\* ComponentManager::add
add(r, id, inst) ==
    LET p == Alloc(r, inst.app_id)
        m == MapInsert(r.components_, id, p)
    IN  IF m = r.components_ THEN r
        ELSE [r EXCEPT !.components_ = m, !.heap = (p :> inst) @@ @]

\* ComponentManager::clear
clear(r) == Release([r EXCEPT !.components_ = {}])

\* update without the comparison of the report's identity tag
updateAnyIdentity(r, state, in_debounce) ==
    LET a == r.active_component_ IN
    IF a # NULL
    THEN LET u == UpdateStateFromKnob(r.heap[a], state, in_debounce)
             r1 == [r EXCEPT !.heap[a] = u.inst, !.forwarded = a,
                             !.event = u.event, !.ret = TRUE]
         IN  IF u.pushed THEN requestUpdate(r1, u.inst.motor_config) ELSE r1
    ELSE [r EXCEPT !.event = EmptyStateUpdate]

\* ComponentManager::update
update(r, state, in_debounce) ==
    LET a == r.active_component_ IN
    IF a # NULL /\ state.id = r.heap[a].app_id
    THEN LET u == UpdateStateFromKnob(r.heap[a], state, in_debounce)
             r1 == [r EXCEPT !.heap[a] = u.inst, !.forwarded = a,
                             !.event = u.event, !.ret = TRUE]
         IN  IF u.pushed THEN requestUpdate(r1, u.inst.motor_config) ELSE r1
    ELSE [r EXCEPT !.event = EmptyStateUpdate]

\* setActiveComponent that keeps a component that is already active
setActiveComponentKeepsFirst(r, component_id) ==
    LET p == MapFind(r.components_, component_id) IN
    IF p = NULL THEN [r EXCEPT !.ret = FALSE]
    ELSE [render(setComponentMode(
              Release([r EXCEPT !.active_component_ =
                                    IF @ = NULL THEN p ELSE @]), TRUE))
          EXCEPT !.ret = TRUE]

\* setActiveComponent that deactivates when the id is not found
setActiveComponentDeactivatesOnMiss(r, component_id) ==
    LET p == MapFind(r.components_, component_id) IN
    IF p = NULL THEN [deactivateAll(r) EXCEPT !.ret = FALSE]
    ELSE [render(setComponentMode(
              Release([r EXCEPT !.active_component_ = p]), TRUE))
          EXCEPT !.ret = TRUE]

\* setActiveComponent that drops the entry of the component it replaces
setActiveComponentDropsPrevious(r, component_id) ==
    LET p == MapFind(r.components_, component_id) IN
    IF p = NULL THEN [r EXCEPT !.ret = FALSE]
    ELSE [render(setComponentMode(
              Release([r EXCEPT
                         !.components_ =
                             {e \in @ : e.ptr = p
                                          \/ e.ptr # r.active_component_},
                         !.active_component_ = p]), TRUE))
          EXCEPT !.ret = TRUE]

\* ComponentManager::setActiveComponent
setActiveComponent(r, component_id) ==
    LET p == MapFind(r.components_, component_id) IN
    IF p = NULL THEN [r EXCEPT !.ret = FALSE]
    ELSE [render(setComponentMode(
              Release([r EXCEPT !.active_component_ = p]), TRUE))
          EXCEPT !.ret = TRUE]

\* ComponentManager::createComponentByType: NULL for an unknown type
createComponentByType(type, config) ==
    CASE type = "TOGGLE" -> [null |-> FALSE, inst |-> ToggleNew(config)]
      [] type = "MULTI_CHOICE" ->
             [null |-> FALSE, inst |-> MultipleChoiceNew(config)]
      [] OTHER -> [null |-> TRUE, inst |-> ComponentBase(type, EmptyId)]

\* createComponent that never looks for an existing entry: a second entry
\* for a registered id
createComponentDuplicates(r, config) ==
    LET id == config.component_id
        component == createComponentByType(config.type, config)
        p == Alloc(r, id)
    IN  IF id = EmptyId THEN [r EXCEPT !.ret = FALSE]
        ELSE IF component.null THEN [r EXCEPT !.ret = FALSE]
        ELSE [r EXCEPT
                !.components_ = @ \cup {[key |-> id, ptr |-> p]},
                !.heap = (p :> component.inst) @@ @,
                !.ret = TRUE]

\* createComponent that builds a new instance for a registered id
createComponentReplaces(r, config) ==
    LET id == config.component_id
        component == createComponentByType(config.type, config)
        p == Alloc(r, id)
    IN  IF id = EmptyId THEN [r EXCEPT !.ret = FALSE]
        ELSE IF component.null THEN [r EXCEPT !.ret = FALSE]
        ELSE Release([r EXCEPT
                        !.components_ = MapAssign(@, id, p),
                        !.heap = (p :> component.inst) @@ @,
                        !.ret = TRUE])

\* ComponentManager::createComponent
createComponent(r, config) ==
    LET id == config.component_id
        existing == MapFind(r.components_, id)
    IN  IF id = EmptyId THEN [r EXCEPT !.ret = FALSE]
        ELSE IF existing # NULL
        THEN LET c == Configure(r.heap[existing], config)
             IN  [r EXCEPT !.heap[existing] = c.inst, !.ret = c.ok]
        ELSE LET component == createComponentByType(config.type, config)
                 p == Alloc(r, id)
             IN  IF component.null THEN [r EXCEPT !.ret = FALSE]
                 ELSE [r EXCEPT
                         !.components_ = MapAssign(@, id, p),
                         !.heap = (p :> component.inst) @@ @,
                         !.ret = TRUE]

\* destroyComponent that leaves the active reference alone
destroyComponentKeepsActive(r, component_id) ==
    LET p == MapFind(r.components_, component_id) IN
    IF p = NULL THEN [r EXCEPT !.ret = FALSE]
    ELSE Release([r EXCEPT
                    !.components_ = MapErase(@, component_id),
                    !.ret = TRUE])

\* destroyComponent that clears the active reference when the id is not found
destroyComponentClearsOnMiss(r, component_id) ==
    LET p == MapFind(r.components_, component_id) IN
    IF p = NULL THEN Release([r EXCEPT !.active_component_ = NULL,
                                       !.ret = FALSE])
    ELSE Release([r EXCEPT
                    !.active_component_ = IF @ = p THEN NULL ELSE @,
                    !.components_ = MapErase(@, component_id),
                    !.ret = TRUE])

\* ComponentManager::destroyComponent
destroyComponent(r, component_id) ==
    LET p == MapFind(r.components_, component_id) IN
    IF p = NULL THEN [r EXCEPT !.ret = FALSE]
    ELSE Release([r EXCEPT
                    !.active_component_ = IF @ = p THEN NULL ELSE @,
                    !.components_ = MapErase(@, component_id),
                    !.ret = TRUE])

\* ComponentManager::triggerMotorConfigUpdate
triggerMotorConfigUpdate(r) ==
    IF r.active_component_ # NULL
    THEN IF motor_notifier_
         THEN requestUpdate(r, r.heap[r.active_component_].motor_config)
         ELSE r
    ELSE IF motor_notifier_ THEN requestUpdate(r, blocked_motor_config) ELSE r

\* the callback without the activation of the component it created
appComponentCallbackCreateOnly(r, config) ==
    LET c == createComponent(r, config) IN
    IF c.ret THEN setComponentMode(c, TRUE) ELSE c

\* the callback that activates whatever createComponent returned
appComponentCallbackActivatesAlways(r, config) ==
    LET c == createComponent(r, config)
        s == setActiveComponent(setComponentMode(c, TRUE), config.component_id)
        t == IF s.ret THEN triggerMotorConfigUpdate(s) ELSE s
    IN  [t EXCEPT !.ret = c.ret, !.activated = s.ret]

\* RootTask::run, the callback of PB_ToSmartknob_app_component_tag
appComponentCallback(r, config) ==
    LET c == createComponent(r, config) IN
    IF c.ret
    THEN LET s == setActiveComponent(setComponentMode(c, TRUE),
                                     config.component_id)
             t == IF s.ret THEN triggerMotorConfigUpdate(s) ELSE s
         IN  [t EXCEPT !.ret = TRUE, !.activated = s.ret]
    ELSE c


\* ------------------------------------------------------------------ inputs
\* the option counts the registry's messages carry, and the positions its
\* knob reports carry (hundredths): enough for a selection to move
OptionCounts == {1, 2}
KnobPositions == {0, 100}

\* PB_AppComponent messages: every id, declared type and payload tag; the
\* union member the tag does not select is zero
ToggleConfigs ==
    [component_id : AnyId, type : Types, which_component_config : {"toggle_tag"},
     initial_state : BOOLEAN, options_count : {0}, initial_index : {0}]

MultiChoiceConfigs ==
    [component_id : AnyId, type : Types,
     which_component_config : {"multi_choice_tag"},
     initial_state : {FALSE}, options_count : OptionCounts,
     initial_index : {0}]

NoPayloadConfigs ==
    [component_id : AnyId, type : Types, which_component_config : {"none"},
     initial_state : {FALSE}, options_count : {0}, initial_index : {0}]

Configs == ToggleConfigs \cup MultiChoiceConfigs \cup NoPayloadConfigs

\* the same messages with more in the payloads: no option, more options than
\* are kept, an initial index out of range
WideCounts == {0, 2, MaxOptionsLimit + 5}

WideIndexes == {0, MaxOptionsLimit + 10}

WideConfigs ==
    ToggleConfigs \cup NoPayloadConfigs \cup
    [component_id : AnyId, type : Types,
     which_component_config : {"multi_choice_tag"},
     initial_state : {FALSE}, options_count : WideCounts,
     initial_index : WideIndexes]

\* the instances handed to add: a configured multiple choice
AddConfigs ==
    {c \in MultiChoiceConfigs :
        c.component_id # EmptyId /\ c.type = "MULTI_CHOICE"}

\* knob reports (AppState.motor_state): the identity tag of the motor config
\* they echo and a position
KnobStates == [id : AnyId, current_position : KnobPositions]

\* ------------------------------------------------------ the supervisory loop
\* RootTask::run from the first cycle of its loop on: the knob report is
\* drained and dispatched, the broadcast gate is asked, the notifier is
\* flushed.  Time is counted in steps; millis() wraps at TimeMod.

TimeMod == 4

\* max_broadcast_interval_ = 1000 / rate_hz, in time steps
max_broadcast_interval_ == 2

\* position_change_threshold_ = 0.1f, in hundredths of a position
position_change_threshold_ == 10

\* the most requests between two loopTicks
MaxRequests == 3

\* enableAutoBroadcast(true) before the loop; nothing calls it again
auto_broadcast_enabled_ == TRUE

\* RootTask::press_count_: read by publishState and sendCurrentKnobState,
\* written nowhere
press_count_ == 0

\* PB_SmartKnobState: sub_position_unit in hundredths, the press nonce and the
\* id of the config the motor task echoes
SubPositions == {0, 5, 20}

ZeroState == [sub_position_unit |-> 0, press_nonce |-> 0, id |-> EmptyId]

\* the reports of the motor task: the knob at rest, moved a little or a lot,
\* pressed, or under another config
KnobReports ==
    {[ZeroState EXCEPT !.sub_position_unit = p] : p \in SubPositions}
        \cup {[ZeroState EXCEPT !.press_nonce = 1],
              [ZeroState EXCEPT !.id = 1]}

\* the profiles asked of the notifier
Profiles ==
    {blocked_motor_config} \cup {ToggleMotorConfig(b) : b \in BOOLEAN}

Abs(x) == IF x < 0 THEN -x ELSE x

Min(a, b) == IF a < b THEN a ELSE b

\* the fields of RootTask the gate uses, with the states sent by the running
\* operation
RootTask ==
    [latest_state_ |-> latest_state_,
     last_broadcast_state_ |-> last_broadcast_state_,
     last_broadcast_time_ |-> last_broadcast_time_,
     sent |-> <<>>]

\* a gate that looks at the position only
shouldBroadcastStatePositionOnly(rt, current_state, current_time) ==
    /\ (current_time - rt.last_broadcast_time_) % TimeMod
           >= max_broadcast_interval_
    /\ Abs(current_state.sub_position_unit
             - rt.last_broadcast_state_.sub_position_unit)
           >= position_change_threshold_

\* a gate that lets a large move through at once
shouldBroadcastStateUrgent(rt, current_state, current_time) ==
    LET position_delta ==
            Abs(current_state.sub_position_unit
                  - rt.last_broadcast_state_.sub_position_unit)
    IN  \/ position_delta >= 2 * position_change_threshold_
        \/ /\ (current_time - rt.last_broadcast_time_) % TimeMod
                  >= max_broadcast_interval_
           /\ \/ position_delta >= position_change_threshold_
              \/ current_state.press_nonce
                    # rt.last_broadcast_state_.press_nonce
              \/ current_state.id # rt.last_broadcast_state_.id

\* RootTask::shouldBroadcastState; the difference of two uint32_t wraps
shouldBroadcastState(rt, current_state, current_time) ==
    IF (current_time - rt.last_broadcast_time_) % TimeMod
           < max_broadcast_interval_
    THEN FALSE
    ELSE LET position_changed ==
                 Abs(current_state.sub_position_unit
                       - rt.last_broadcast_state_.sub_position_unit)
                     >= position_change_threshold_
             press_changed ==
                 current_state.press_nonce
                     # rt.last_broadcast_state_.press_nonce
             config_changed == current_state.id # rt.last_broadcast_state_.id
         IN  position_changed \/ press_changed \/ config_changed

\* sendCurrentKnobState that also records the send in the gate
sendCurrentKnobStateThrottles(rt, current_time) ==
    [rt EXCEPT
       !.sent = Append(@, [rt.latest_state_ EXCEPT
                             !.press_nonce = press_count_]),
       !.last_broadcast_time_ = current_time]

\* RootTask::sendCurrentKnobState: a copy of latest_state_ with the press
\* count goes to the protocol; current_time is not looked at
sendCurrentKnobState(rt, current_time) ==
    [rt EXCEPT
       !.sent = Append(@, [rt.latest_state_ EXCEPT
                             !.press_nonce = press_count_])]

\* RootTask::checkAndBroadcastState; millis() is read a second time after
\* the send
checkAndBroadcastState(rt, current_time, later_time) ==
    IF ~auto_broadcast_enabled_ THEN rt
    ELSE IF shouldBroadcastState(rt, rt.latest_state_, current_time)
    THEN [sendCurrentKnobState(rt, current_time) EXCEPT
            !.last_broadcast_state_ = rt.latest_state_,
            !.last_broadcast_time_ = later_time]
    ELSE rt

\* RootTask::publishState
publishState(rt) == [rt EXCEPT !.latest_state_.press_nonce = press_count_]

\* RootTask::applyConfig, called by the notifier: the profile goes to the
\* motor task
applyConfig(out, config) == Append(out, config)

NoPending == [pending |-> FALSE, config |-> blocked_motor_config]

\* a notifier that keeps the first profile requested
MotorNotifierKeepsFirst(n, config) ==
    IF n.pending THEN n ELSE [pending |-> TRUE, config |-> config]

\* MotorNotifier::requestUpdate: the profile replaces the pending one
MotorNotifierRequestUpdate(n, config) == [pending |-> TRUE, config |-> config]

\* MotorNotifier::loopTick: a pending profile is passed to the callback, once
loopTick(n) ==
    [n |-> NoPending,
     out |-> IF n.pending THEN applyConfig(<<>>, n.config) ELSE <<>>]

NoFlush == [requests |-> <<>>, out |-> <<>>]

NoTick == [gate |-> FALSE, flushed |-> FALSE, published |-> FALSE]

NoWire == [kind |-> "none", state |-> ZeroState]

\* what the operation handed to the protocol
Sent(rt, kind) ==
    IF rt.sent = <<>> THEN NoWire
    ELSE [kind |-> kind, state |-> rt.sent[Len(rt.sent)]]

InitLoop ==
    /\ knob_state_queue_ = [full |-> FALSE, state |-> ZeroState]
    /\ latest_state_ = ZeroState
    /\ last_broadcast_state_ = ZeroState
    /\ last_broadcast_time_ = 0
    /\ millis = 0
    /\ motor_notifier = NoPending
    /\ wire = NoWire
    /\ pcT = "drain"
    /\ tick = NoTick
    /\ since = max_broadcast_interval_
    /\ requests = <<>>
    /\ applied = NoFlush

\* ------------------------------------------------- a component on its own
\* the items the motor queue holds at most
QueueLength == 1

\* no ToggleComponent yet
NoToggle == [ComponentBase("OTHER", EmptyId) EXCEPT !.configured_ = FALSE]

\* a null QueueHandle_t
NoQueue == [handle |-> FALSE, items |-> <<>>]

\* the hues a toggle payload carries: off_led_hue, on_led_hue
OffHues == {-30, 40}

OnHues == {480}

\* the longest time since a flip that is counted: past one turn of the clock
ElapsedCap == ToggleClockMod + DEBOUNCE_TIME_MS

\* the clock at 0, no flip yet (elapsed is -1), nothing sent
NoToggleIO ==
    [now |-> 0, last_state_change_time_ |-> 0, elapsed |-> -1,
     hues |-> DefaultHues, led |-> FALSE, motor |-> <<>>, hue |-> <<>>]

\* RootTask before its constructor ran: component_manager_ and the other
\* pointers are not set, no callback is registered
NoRootTask ==
    [pc |-> "constructor", configuration_ |-> FALSE,
     is_configuration_loaded |-> FALSE, component_manager_ |-> FALSE,
     registered |-> FALSE, null_call |-> FALSE, crashed |-> FALSE]

\* millis() is an unsigned 32-bit count of milliseconds that wraps; the model
\* counts units of the loop's delay modulo ScreenClockMod
ScreenClockMod == 8

\* the engagement timeouts, in the same units
KNOB_ENGAGED_TIMEOUT_NONE_PHYSICAL == 1

KNOB_ENGAGED_TIMEOUT_PHYSICAL == 2

\* settings_.screen.timeout
ScreenTimeouts == {1, 3}

\* "AppState app_state = {}" and the clock at the first tick
NoScreen ==
    [millis |-> 0, awake_until |-> 0, has_been_engaged |-> FALSE,
     brightness |-> "zero", strain |-> "unknown",
     signal |-> FALSE, cleared |-> FALSE]

\* a blank message
NoChoiceConfig ==
    [component_id |-> EmptyId, type |-> "OTHER",
     which_component_config |-> "none", initial_state |-> FALSE,
     options_count |-> 0, initial_index |-> 0]

\* no MultipleChoice yet
NoChoice == ComponentBase("OTHER", EmptyId)

\* the multi choice payloads a MultipleChoice is constructed from: none, one,
\* a few, the most options kept and more than that; the initial index below,
\* inside and above the range
ChoiceCounts == {0, 1, 3, MaxOptionsLimit, MaxOptionsLimit + 1,
                 MaxOptionsLimit + 5}

ChoiceIndexes == {-1, 0, 2, MaxOptionsLimit - 1, MaxOptionsLimit + 10}

ChoiceConfigs ==
    [component_id : Ids, type : {"MULTI_CHOICE"},
     which_component_config : {"multi_choice_tag"},
     initial_state : {FALSE}, options_count : ChoiceCounts,
     initial_index : ChoiceIndexes]

\* knob positions reported to it, in hundredths
ChoicePositions ==
    {-100, 0, 49, 50, 51, 100, 149, 151, 200,
     100 * (MaxOptionsLimit - 1), 100 * MaxOptionsLimit,
     100 * (MaxOptionsLimit + 10)}

NoCall ==
    [op |-> "none", config |-> NoChoiceConfig, position |-> 0,
     before |-> NoChoice, event |-> EmptyStateUpdate, pushed |-> FALSE]

\* the knob positions reported to a Toggle on its own, in hundredths: at rest,
\* short of the middle, past it, and a full position
TogglePositions == {0, 40, 60, 100}

ToggleKnobStates == [id : AnyId, current_position : TogglePositions]

\* Component::updateMotorConfig: nothing without a queue; xQueueSend fails
\* on a full queue
ComponentUpdateMotorConfig(queue, config) ==
    IF ~queue.handle THEN queue
    ELSE IF Len(queue.items) < QueueLength
    THEN [queue EXCEPT !.items = Append(@, config)]
    ELSE queue

\* ToggleComponent::updateMotorConfig for the profiles an operation built
ToggleUpdateMotorConfig(queue, motor) ==
    IF ~queue.handle \/ motor = <<>> THEN queue
    ELSE ComponentUpdateMotorConfig(queue, motor[1])

\* ----------------------------------------------------------------- actions
\* a task between two operations; the message and the report are blank
NoConfig ==
    [component_id |-> EmptyId, type |-> "OTHER",
     which_component_config |-> "none", initial_state |-> FALSE,
     options_count |-> 0, initial_index |-> 0]

NoKnobState == [id |-> EmptyId, current_position |-> 0]

IdleP == [at |-> "idle", config |-> NoConfig]

IdleS == [at |-> "idle", state |-> NoKnobState]

\* no operation is running: each handler runs from its call to its return
Idle == pcP = IdleP /\ pcS = IdleS /\ component_mutex_ = "none"

\* the registry after an operation, and what the operation did
Apply(r, op, id) ==
    /\ components_' = r.components_
    /\ heap' = r.heap
    /\ active_component_' = r.active_component_
    /\ component_mode_' = r.component_mode_
    /\ last' = [op |-> op, id |-> id, ret |-> r.ret,
                activated |-> r.activated,
                renders |-> r.renders, pushes |-> r.pushes,
                forwarded |-> r.forwarded, changed |-> r.event.changed,
                prevActive |-> active_component_]
    /\ UNCHANGED <<loopVars, componentVars>>

Init ==
    /\ components_ = {}
    /\ heap = <<>>
    /\ active_component_ = NULL
    /\ component_mode_ = FALSE
    /\ last = [op |-> "init", id |-> EmptyId, ret |-> FALSE,
               activated |-> FALSE, renders |-> <<>>, pushes |-> <<>>,
               forwarded |-> NULL, changed |-> FALSE, prevActive |-> NULL]
    /\ pcP = IdleP
    /\ pcS = IdleS
    /\ component_mutex_ = "none"
    /\ InitLoop
    /\ toggle_ = NoToggle
    /\ motor_task_queue_ = NoQueue
    /\ toggle_io_ = NoToggleIO
    /\ choice_ = NoChoice
    /\ choice_last_ = NoCall
    /\ startup_ = NoRootTask
    /\ screen_ = NoScreen

\* a direct call of createComponent with this message
CreateComponentWith(config) ==
    /\ Idle
    /\ Apply(createComponent(Reg, config), "createComponent",
             config.component_id)
    /\ UNCHANGED <<pcP, pcS, component_mutex_>>

CreateComponent == \E config \in Configs : CreateComponentWith(config)

\* an app_component message arrives and its callback runs
AppComponentCallbackWith(config) ==
    /\ Idle
    /\ Apply(appComponentCallback(Reg, config), "app_component",
             config.component_id)
    /\ UNCHANGED <<pcP, pcS, component_mutex_>>

AppComponentCallback ==
    \E config \in Configs : AppComponentCallbackWith(config)

SetActiveComponent ==
    \E id \in AnyId :
        /\ Idle
        /\ Apply(setActiveComponent(Reg, id), "setActiveComponent", id)
        /\ UNCHANGED <<pcP, pcS, component_mutex_>>

DestroyComponent ==
    \E id \in AnyId :
        /\ Idle
        /\ Apply(destroyComponent(Reg, id), "destroyComponent", id)
        /\ UNCHANGED <<pcP, pcS, component_mutex_>>

DeactivateAll ==
    /\ Idle
    /\ Apply(deactivateAll(Reg), "deactivateAll", EmptyId)
    /\ UNCHANGED <<pcP, pcS, component_mutex_>>

\* add: a caller registers an instance it constructed for that id
Add ==
    \E config \in AddConfigs :
        /\ Idle
        /\ Apply(add(Reg, config.component_id, MultipleChoiceNew(config)),
                 "add", config.component_id)
        /\ UNCHANGED <<pcP, pcS, component_mutex_>>

Clear ==
    /\ Idle
    /\ Apply(clear(Reg), "clear", EmptyId)
    /\ UNCHANGED <<pcP, pcS, component_mutex_>>

Update ==
    \E state \in KnobStates, in_debounce \in BOOLEAN :
        /\ Idle
        /\ Apply(update(Reg, state, in_debounce), "update", state.id)
        /\ UNCHANGED <<pcP, pcS, component_mutex_>>

TriggerMotorConfigUpdate ==
    /\ Idle
    /\ Apply(triggerMotorConfigUpdate(Reg), "triggerMotorConfigUpdate", EmptyId)
    /\ UNCHANGED <<pcP, pcS, component_mutex_>>

Next ==
    \/ CreateComponent
    \/ AppComponentCallback
    \/ SetActiveComponent
    \/ DestroyComponent
    \/ DeactivateAll
    \/ Add
    \/ Update
    \/ TriggerMotorConfigUpdate

Spec == Init /\ [][Next]_vars

\* createComponent, setActiveComponent and destroyComponent alone, with the
\* wider payloads
CreateComponentWide ==
    \E config \in WideConfigs : CreateComponentWith(config)

NextCreate ==
    \/ CreateComponentWide
    \/ SetActiveComponent
    \/ DestroyComponent

SpecCreate == Init /\ [][NextCreate]_vars

\* the same with clear(), which no claim of the registry's contract names
NextAll == Next \/ Clear

SpecAll == Init /\ [][NextAll]_vars

\* sanity of the model itself: live instances are exactly the held handles
HeapOk ==
    /\ DOMAIN heap = Live(Reg)
    /\ \A e1, e2 \in components_ : e1.key = e2.key => e1 = e2

\* ------------------------------------------------ the two tasks, interleaved
\* The protocol-receive path runs the message callback and the registry's
\* other structural operations; the supervisory task (RootTask::run) forwards
\* a knob report each cycle.  An operation is split where it first reads the
\* map or the active reference and where it last uses them; the lock is taken
\* only by the operations that construct a SemaphoreGuard.

\* messages and reports of the interleaved tasks
ConcConfigs ==
    {c \in ToggleConfigs \cup MultiChoiceConfigs :
        /\ c.type = (IF c.which_component_config = "toggle_tag"
                     THEN "TOGGLE" ELSE "MULTI_CHOICE")
        /\ ~c.initial_state
        /\ c.options_count \in {0, 2}}

ConcAddConfigs == {c \in AddConfigs : c.options_count = 2}

IdConfig(id) == [NoConfig EXCEPT !.component_id = id]

\* the firmware runs: no task has faulted
PAt(at) == pcP.at = at /\ pcS.at # "crashed"

SAt(at) == pcS.at = at

\* the callback of an app_component message is entered (root_task.cpp 107)
P_Message ==
    \E config \in ConcConfigs :
        /\ PAt("idle")
        /\ pcP' = [at |-> "createComponent", config |-> config]
        /\ UNCHANGED <<components_, heap, active_component_, component_mode_,
                       last, pcS, component_mutex_,
                       loopVars, componentVars>>

\* createComponent, lines 94-105: the id is checked and looked up, no lock
P_CreateFind ==
    /\ PAt("createComponent")
    /\ IF pcP.config.component_id = EmptyId
       THEN /\ Apply(createComponent(Reg, pcP.config), "createComponent",
                     pcP.config.component_id)
            /\ pcP' = IdleP
       ELSE /\ pcP' = [pcP EXCEPT !.at = "creating"]
            /\ UNCHANGED <<components_, heap, active_component_,
                           component_mode_, last,
                       loopVars, componentVars>>
    /\ UNCHANGED <<pcS, component_mutex_>>

\* createComponent, lines 107-143, and the callback's "component_mode_ = true"
P_CreateFinish ==
    /\ PAt("creating")
    /\ LET c == createComponent(Reg, pcP.config) IN
       /\ Apply(IF c.ret THEN setComponentMode(c, TRUE) ELSE c,
                "createComponent", pcP.config.component_id)
       /\ pcP' = IF c.ret THEN [pcP EXCEPT !.at = "setActiveComponent"]
                 ELSE IdleP
    /\ UNCHANGED <<pcS, component_mutex_>>

\* setActiveComponent, line 76: the guard takes the lock
P_ActivateLock ==
    /\ PAt("setActiveComponent")
    /\ component_mutex_ = "none"
    /\ component_mutex_' = "P"
    /\ pcP' = [pcP EXCEPT !.at = "activating"]
    /\ UNCHANGED <<components_, heap, active_component_, component_mode_,
                   last, pcS,
                       loopVars, componentVars>>

\* setActiveComponent, lines 78-86: the lookup, the active reference and the
\* mode; without the id the call returns and the guard releases
P_ActivateFinish ==
    /\ PAt("activating")
    /\ LET a == setActiveComponent(Reg, pcP.config.component_id) IN
       IF a.ret
       THEN /\ components_' = a.components_
            /\ heap' = a.heap
            /\ active_component_' = a.active_component_
            /\ component_mode_' = a.component_mode_
            /\ pcP' = [pcP EXCEPT !.at = "rendering"]
            /\ UNCHANGED <<last, component_mutex_,
                       loopVars, componentVars>>
       ELSE /\ Apply(a, "setActiveComponent", pcP.config.component_id)
            /\ pcP' = IdleP
            /\ component_mutex_' = "none"
    /\ UNCHANGED pcS

\* setActiveComponent, lines 87-88: render, then the return destroys the guard
P_ActivateRender ==
    /\ PAt("rendering")
    /\ Apply([render(Reg) EXCEPT !.ret = TRUE], "setActiveComponent",
             pcP.config.component_id)
    /\ pcP' = [pcP EXCEPT !.at = "trigger"]
    /\ component_mutex_' = "none"
    /\ UNCHANGED pcS

\* the callback's triggerMotorConfigUpdate (root_task.cpp 117)
P_Trigger ==
    /\ PAt("trigger")
    /\ Apply(triggerMotorConfigUpdate(Reg), "triggerMotorConfigUpdate",
             pcP.config.component_id)
    /\ pcP' = IdleP
    /\ UNCHANGED <<pcS, component_mutex_>>

\* destroyComponent is called
P_Destroy ==
    \E id \in Ids :
        /\ PAt("idle")
        /\ pcP' = [at |-> "destroyComponent", config |-> IdConfig(id)]
        /\ UNCHANGED <<components_, heap, active_component_, component_mode_,
                       last, pcS, component_mutex_,
                       loopVars, componentVars>>

\* destroyComponent, lines 148-154: the lookup, no lock
P_DestroyFind ==
    /\ PAt("destroyComponent")
    /\ IF MapFind(components_, pcP.config.component_id) = NULL
       THEN /\ Apply(destroyComponent(Reg, pcP.config.component_id),
                     "destroyComponent", pcP.config.component_id)
            /\ pcP' = IdleP
       ELSE /\ pcP' = [pcP EXCEPT !.at = "destroying"]
            /\ UNCHANGED <<components_, heap, active_component_,
                           component_mode_, last,
                       loopVars, componentVars>>
    /\ UNCHANGED <<pcS, component_mutex_>>

\* destroyComponent, lines 157-166
P_DestroyFinish ==
    /\ PAt("destroying")
    /\ Apply(destroyComponent(Reg, pcP.config.component_id),
             "destroyComponent", pcP.config.component_id)
    /\ pcP' = IdleP
    /\ UNCHANGED <<pcS, component_mutex_>>

\* deactivateAll, line 26: the active reference is read, no lock
P_DeactivateRead ==
    /\ PAt("idle")
    /\ active_component_ # NULL
    /\ pcP' = [at |-> "deactivating", config |-> NoConfig]
    /\ UNCHANGED <<components_, heap, active_component_, component_mode_,
                   last, pcS, component_mutex_,
                       loopVars, componentVars>>

\* deactivateAll, lines 29-30
P_DeactivateFinish ==
    /\ PAt("deactivating")
    /\ Apply(deactivateAll(Reg), "deactivateAll", EmptyId)
    /\ pcP' = IdleP
    /\ UNCHANGED <<pcS, component_mutex_>>

\* add, line 37: the guard takes the lock
P_AddLock ==
    \E config \in ConcAddConfigs :
        /\ PAt("idle")
        /\ component_mutex_ = "none"
        /\ component_mutex_' = "P"
        /\ pcP' = [at |-> "adding", config |-> config]
        /\ UNCHANGED <<components_, heap, active_component_, component_mode_,
                       last, pcS,
                       loopVars, componentVars>>

\* add, line 38; the guard releases
P_AddFinish ==
    /\ PAt("adding")
    /\ Apply(add(Reg, pcP.config.component_id, MultipleChoiceNew(pcP.config)),
             "add", pcP.config.component_id)
    /\ pcP' = IdleP
    /\ component_mutex_' = "none"
    /\ UNCHANGED pcS

\* clear, line 43: the guard takes the lock
P_ClearLock ==
    /\ PAt("idle")
    /\ component_mutex_ = "none"
    /\ component_mutex_' = "P"
    /\ pcP' = [at |-> "clearing", config |-> NoConfig]
    /\ UNCHANGED <<components_, heap, active_component_, component_mode_,
                   last, pcS,
                       loopVars, componentVars>>

\* clear, line 44; the guard releases
P_ClearFinish ==
    /\ PAt("clearing")
    /\ Apply(clear(Reg), "clear", EmptyId)
    /\ pcP' = IdleP
    /\ component_mutex_' = "none"
    /\ UNCHANGED pcS

\* RootTask::run, lines 310-313: with an active component the cycle's report
\* goes to update
S_Tick ==
    \E state \in KnobStates :
        /\ SAt("idle")
        /\ active_component_ # NULL
        /\ pcS' = [at |-> "update", state |-> state]
        /\ UNCHANGED <<components_, heap, active_component_, component_mode_,
                       last, pcP, component_mutex_,
                       loopVars, componentVars>>

\* RootTask::run, lines 310 and 323-326: without an active component the
\* cycle's report goes to the legacy Apps subsystem
S_TickLegacy ==
    \E state \in KnobStates :
        /\ SAt("idle")
        /\ active_component_ = NULL
        /\ pcS' = [at |-> "legacy", state |-> state]
        /\ UNCHANGED <<components_, heap, active_component_, component_mode_,
                       last, pcP, component_mutex_,
                       loopVars, componentVars>>

\* RootTask::run, line 326: Apps::update receives the report
S_LegacyUpdate ==
    /\ SAt("legacy")
    /\ Apply(Reg, "legacy_update", pcS.state.id)
    /\ pcS' = IdleS
    /\ UNCHANGED <<pcP, component_mutex_>>

\* update, line 50: the guard takes the lock
S_UpdateLock ==
    /\ SAt("update")
    /\ component_mutex_ = "none"
    /\ component_mutex_' = "S"
    /\ pcS' = [pcS EXCEPT !.at = "updating"]
    /\ UNCHANGED <<components_, heap, active_component_, component_mode_,
                   last, pcP,
                       loopVars, componentVars>>

\* update, lines 53-56: the active reference and the identity are checked;
\* without a match the empty event is returned and the guard releases
S_UpdateCheck ==
    /\ SAt("updating")
    /\ IF /\ active_component_ # NULL
          /\ pcS.state.id = heap[active_component_].app_id
       THEN /\ pcS' = [pcS EXCEPT !.at = "forwarding"]
            /\ UNCHANGED <<components_, heap, active_component_,
                           component_mode_, last, component_mutex_,
                       loopVars, componentVars>>
       ELSE /\ Apply([Reg EXCEPT !.event = EmptyStateUpdate], "update",
                     pcS.state.id)
            /\ pcS' = IdleS
            /\ component_mutex_' = "none"
    /\ UNCHANGED pcP

\* update, lines 58-63: the report goes to the instance the active reference
\* names now.  A reference cleared since the check is a null pointer that is
\* dereferenced: the task faults, or the call returns an arbitrary event.
S_UpdateForward ==
    /\ SAt("forwarding")
    /\ IF active_component_ # NULL
       THEN \E in_debounce \in BOOLEAN :
              /\ Apply(update(Reg, pcS.state, in_debounce), "update",
                       pcS.state.id)
              /\ pcS' = IdleS
              /\ component_mutex_' = "none"
       ELSE \/ /\ pcS' = [pcS EXCEPT !.at = "crashed"]
               /\ UNCHANGED <<components_, heap, active_component_,
                              component_mode_, last, component_mutex_,
                       loopVars, componentVars>>
            \/ \E changed \in BOOLEAN :
                 /\ Apply([Reg EXCEPT !.event.changed = changed], "update",
                          pcS.state.id)
                 /\ pcS' = IdleS
                 /\ component_mutex_' = "none"
    /\ UNCHANGED pcP

NextConc ==
    \/ P_Message
    \/ P_CreateFind
    \/ P_CreateFinish
    \/ P_ActivateLock
    \/ P_ActivateFinish
    \/ P_ActivateRender
    \/ P_Trigger
    \/ P_Destroy
    \/ P_DestroyFind
    \/ P_DestroyFinish
    \/ P_DeactivateRead
    \/ P_DeactivateFinish
    \/ P_AddLock
    \/ P_AddFinish
    \/ P_ClearLock
    \/ P_ClearFinish
    \/ S_Tick
    \/ S_TickLegacy
    \/ S_LegacyUpdate
    \/ S_UpdateLock
    \/ S_UpdateCheck
    \/ S_UpdateForward

SpecConc == Init /\ [][NextConc]_vars

\* a task is between its first and its last access to the map or the active
\* reference
InRegionP ==
    pcP.at \in {"creating", "activating", "destroying", "deactivating",
                "adding", "clearing"}

\* the protocol path is inside ComponentManager::render
Rendering == pcP.at = "rendering"

InRegionS == pcS.at \in {"updating", "forwarding"}

\* the supervisory task is handing its report to the legacy Apps subsystem
LegacyDispatch == pcS.at = "legacy"

\* the lock is held by the task that is inside a guarded operation
LockOk ==
    /\ component_mutex_ = "P" <=>
          pcP.at \in {"activating", "rendering", "adding", "clearing"}
    /\ component_mutex_ = "S" <=>
          pcS.at \in {"updating", "forwarding", "crashed"}

\* ---------------------------------------------- the cycle of RootTask::run
gateVars == <<last_broadcast_state_, last_broadcast_time_>>

notifierVars == <<motor_notifier, requests, applied>>

\* the motor task puts a report in the queue's one slot
KnobReport ==
    \E state \in KnobReports :
        /\ knob_state_queue_' = [full |-> TRUE, state |-> state]
        /\ wire' = NoWire
        /\ UNCHANGED <<latest_state_, gateVars, millis, notifierVars, pcT,
                       tick, since, regVars,
                   componentVars>>

\* a time step passes
Advance ==
    /\ millis' = (millis + 1) % TimeMod
    /\ since' = Min(since + 1, max_broadcast_interval_)
    /\ wire' = NoWire
    /\ UNCHANGED <<knob_state_queue_, latest_state_, gateVars, notifierVars,
                   pcT, tick, regVars,
                   componentVars>>

\* the request_state callback (lines 103-104)
RequestState ==
    /\ LET rt == sendCurrentKnobState(RootTask, millis) IN
       /\ wire' = Sent(rt, "reply")
       /\ last_broadcast_state_' = rt.last_broadcast_state_
       /\ last_broadcast_time_' = rt.last_broadcast_time_
       /\ latest_state_' = rt.latest_state_
    /\ UNCHANGED <<knob_state_queue_, millis, notifierVars, pcT, tick, since,
                   regVars,
                   componentVars>>

\* line 285: a report in the queue becomes latest_state_; without one the
\* cycle goes on at line 389
T_Drain ==
    /\ pcT = "drain"
    /\ IF knob_state_queue_.full
       THEN /\ latest_state_' = knob_state_queue_.state
            /\ knob_state_queue_' = [knob_state_queue_ EXCEPT !.full = FALSE]
            /\ pcT' = "dispatch"
       ELSE /\ pcT' = "loopTick"
            /\ UNCHANGED <<latest_state_, knob_state_queue_>>
    /\ wire' = NoWire
    /\ UNCHANGED <<gateVars, millis, notifierVars, tick, since, regVars,
                   componentVars>>

\* lines 306-327: the report is dispatched; the receiver may ask the
\* notifier for a profile
T_Dispatch ==
    /\ pcT = "dispatch"
    /\ \/ UNCHANGED <<motor_notifier, requests>>
       \/ \E config \in Profiles :
            /\ Len(requests) < MaxRequests
            /\ motor_notifier' = MotorNotifierRequestUpdate(motor_notifier,
                                                            config)
            /\ requests' = Append(requests, config)
    /\ pcT' = "gate"
    /\ wire' = NoWire
    /\ UNCHANGED <<knob_state_queue_, latest_state_, gateVars, millis, applied,
                   tick, since, regVars,
                   componentVars>>

\* lines 378-381: the gate; time may pass before its second millis()
T_Gate ==
    /\ pcT = "gate"
    /\ \E d \in {0, 1} :
         LET later == (millis + d) % TimeMod
             rt == checkAndBroadcastState(RootTask, millis, later)
         IN  /\ wire' = Sent(rt, "broadcast")
             /\ last_broadcast_state_' = rt.last_broadcast_state_
             /\ last_broadcast_time_' = rt.last_broadcast_time_
             /\ latest_state_' = rt.latest_state_
             /\ tick' = [tick EXCEPT !.gate = TRUE,
                                     !.published = rt.sent # <<>>]
             /\ IF rt.sent # <<>>
                THEN millis' = later /\ since' = 0
                ELSE UNCHANGED <<millis, since>>
    /\ pcT' = "publishState"
    /\ UNCHANGED <<knob_state_queue_, notifierVars, regVars,
                   componentVars>>

\* lines 383-384
T_PublishState ==
    /\ pcT = "publishState"
    /\ latest_state_' = publishState(RootTask).latest_state_
    /\ pcT' = "loopTick"
    /\ wire' = NoWire
    /\ UNCHANGED <<knob_state_queue_, gateVars, millis, notifierVars, tick,
                   since, regVars,
                   componentVars>>

\* line 389: motor_notifier.loopTick()
T_LoopTick ==
    /\ pcT = "loopTick"
    /\ LET f == loopTick(motor_notifier) IN
       /\ motor_notifier' = f.n
       /\ applied' = [requests |-> requests, out |-> f.out]
    /\ requests' = <<>>
    /\ tick' = [tick EXCEPT !.flushed = TRUE]
    /\ pcT' = "delay"
    /\ wire' = NoWire
    /\ UNCHANGED <<knob_state_queue_, latest_state_, gateVars, millis, since,
                   regVars,
                   componentVars>>

\* lines 390-409: the rest of the cycle; the next one starts
T_Delay ==
    /\ pcT = "delay"
    /\ pcT' = "drain"
    /\ tick' = NoTick
    /\ applied' = NoFlush
    /\ wire' = NoWire
    /\ UNCHANGED <<knob_state_queue_, latest_state_, gateVars, millis,
                   motor_notifier, requests, since, regVars,
                   componentVars>>

Cycle ==
    \/ T_Drain
    \/ T_Dispatch
    \/ T_Gate
    \/ T_PublishState
    \/ T_LoopTick
    \/ T_Delay

NextLoop ==
    \/ KnobReport
    \/ Advance
    \/ RequestState
    \/ T_Drain
    \/ T_Dispatch
    \/ T_Gate
    \/ T_PublishState
    \/ T_LoopTick
    \/ T_Delay

SpecLoop == Init /\ [][NextLoop]_vars

\* the loop never stops and time goes on; no report has to arrive
SpecLoopFair == SpecLoop /\ WF_vars(Cycle) /\ WF_vars(Advance)

\* ------------------------------------------------------ the motor notifier
\* any caller asks the notifier for a profile
N_RequestUpdate ==
    \E config \in Profiles :
        /\ Len(requests) < MaxRequests
        /\ motor_notifier' = MotorNotifierRequestUpdate(motor_notifier, config)
        /\ requests' = Append(requests, config)
        /\ UNCHANGED <<applied, knob_state_queue_, latest_state_, gateVars,
                       millis, wire, pcT, tick, since, regVars,
                   componentVars>>

\* the loop calls loopTick (lines 231 and 389)
N_LoopTick ==
    /\ LET f == loopTick(motor_notifier) IN
       /\ motor_notifier' = f.n
       /\ applied' = [requests |-> requests, out |-> f.out]
    /\ requests' = <<>>
    /\ UNCHANGED <<knob_state_queue_, latest_state_, gateVars, millis, wire,
                   pcT, tick, since, regVars,
                   componentVars>>

NextNotifier ==
    \/ N_RequestUpdate
    \/ N_LoopTick

SpecNotifier == Init /\ [][NextNotifier]_vars

\* ------------------------------------------------ the component's operations
\* Component::updateMotorConfig and Component::updateLEDs as the component's
\* outputs: the profile and the hue sent last, where there is a queue
Sent_(io, handle, motor, hue) ==
    [io EXCEPT !.motor = IF handle /\ motor # <<>> THEN motor ELSE @,
               !.hue = IF io.led /\ hue # <<>> THEN hue ELSE @]

\* ToggleComponent::ToggleComponent(component_id, motor_task_queue, ...)
TG_New ==
    \E id \in Ids, handle \in BOOLEAN, led \in BOOLEAN :
        /\ toggle_ = NoToggle
        /\ toggle_' = ToggleDefaults(id)
        /\ motor_task_queue_' = [handle |-> handle, items |-> <<>>]
        /\ toggle_io_' = [NoToggleIO EXCEPT !.now = toggle_io_.now,
                                            !.led = led]
        /\ UNCHANGED <<regVars, loopVars, choiceVars,
                     startVars, screenVars>>

\* ToggleComponent::configure, with a message that carries the component's id
TG_Configure ==
    \E config \in Configs, off \in OffHues, on \in OnHues :
        /\ toggle_ # NoToggle
        /\ config.component_id = toggle_.app_id
        /\ LET c == ToggleConfigure(toggle_, config)
               hues == IF c.ok THEN [off |-> ToggleClampHue(off),
                                     on |-> ToggleClampHue(on)]
                       ELSE toggle_io_.hues
               io == [toggle_io_ EXCEPT !.hues = hues]
           IN  /\ toggle_' = c.inst
               /\ motor_task_queue_' =
                      ToggleUpdateMotorConfig(motor_task_queue_, c.motor)
               /\ toggle_io_' =
                      Sent_(io, motor_task_queue_.handle, c.motor,
                            IF c.ok THEN <<ToggleLedHue(c.inst, hues)>>
                            ELSE <<>>)
        /\ UNCHANGED <<regVars, loopVars, choiceVars,
                     startVars, screenVars>>

\* a flip by the knob or the button: last_state_change_time_ = current_time
Flipped_(io, flipped) ==
    [io EXCEPT !.last_state_change_time_ = IF flipped THEN io.now ELSE @,
               !.elapsed = IF flipped THEN 0 ELSE @]

\* ToggleComponent::handleKnobInput
TG_HandleKnobInput ==
    \E state \in ToggleKnobStates :
        /\ toggle_ # NoToggle
        /\ LET in_debounce ==
                   ToggleInDebounce(toggle_io_.now,
                                    toggle_io_.last_state_change_time_)
               h == ToggleHandleKnobInput(toggle_, state, in_debounce)
           IN  /\ toggle_' = h.inst
               /\ motor_task_queue_' =
                      ToggleUpdateMotorConfig(motor_task_queue_, h.motor)
               /\ toggle_io_' =
                      Sent_(Flipped_(toggle_io_, h.event.changed),
                            motor_task_queue_.handle, h.motor,
                            IF h.event.changed
                            THEN <<ToggleLedHue(h.inst, toggle_io_.hues)>>
                            ELSE <<>>)
        /\ UNCHANGED <<regVars, loopVars, choiceVars,
                     startVars, screenVars>>

\* ToggleComponent::handleButtonInput
TG_HandleButtonInput ==
    \E pressed \in BOOLEAN :
        /\ toggle_ # NoToggle
        /\ LET in_debounce ==
                   ToggleInDebounce(toggle_io_.now,
                                    toggle_io_.last_state_change_time_)
               h == ToggleHandleButtonInput(toggle_, pressed, in_debounce)
           IN  /\ toggle_' = h.inst
               /\ motor_task_queue_' =
                      ToggleUpdateMotorConfig(motor_task_queue_, h.motor)
               /\ toggle_io_' =
                      Sent_(Flipped_(toggle_io_, h.flipped),
                            motor_task_queue_.handle, h.motor,
                            IF h.flipped
                            THEN <<ToggleLedHue(h.inst, toggle_io_.hues)>>
                            ELSE <<>>)
        /\ UNCHANGED <<regVars, loopVars, choiceVars,
                     startVars, screenVars>>

\* ToggleComponent::setState
TG_SetState ==
    \E value \in StateValues :
        /\ toggle_ # NoToggle
        /\ LET h == ToggleSetState(toggle_, value)
           IN  /\ toggle_' = h.inst
               /\ motor_task_queue_' =
                      ToggleUpdateMotorConfig(motor_task_queue_, h.motor)
               /\ toggle_io_' =
                      Sent_(toggle_io_, motor_task_queue_.handle, h.motor,
                            IF h.changed
                            THEN <<ToggleLedHue(h.inst, toggle_io_.hues)>>
                            ELSE <<>>)
        /\ UNCHANGED <<regVars, loopVars, choiceVars,
                     startVars, screenVars>>

\* the motor task takes an item from its queue
TG_MotorTask ==
    /\ motor_task_queue_.items # <<>>
    /\ motor_task_queue_' = [motor_task_queue_ EXCEPT !.items = Tail(@)]
    /\ UNCHANGED <<toggle_, toggle_io_, regVars, loopVars, choiceVars,
                     startVars, screenVars>>

\* a tick of the component's clock
TG_Advance ==
    /\ toggle_io_' =
           [toggle_io_ EXCEPT
              !.now = (@ + 1) % ToggleClockMod,
              !.elapsed = IF @ = -1 THEN -1
                          ELSE IF @ < ElapsedCap THEN @ + 1 ELSE @]
    /\ UNCHANGED <<toggle_, motor_task_queue_, regVars, loopVars, choiceVars,
                     startVars, screenVars>>

NextComponent ==
    \/ TG_New
    \/ TG_Configure
    \/ TG_HandleKnobInput
    \/ TG_HandleButtonInput
    \/ TG_SetState
    \/ TG_MotorTask
    \/ TG_Advance

SpecComponent == Init /\ [][NextComponent]_vars

\* ------------------------------------------------ a MultipleChoice on its own
\* MultipleChoice::MultipleChoice(mutex, config)
MC_New ==
    \E config \in ChoiceConfigs :
        /\ choice_' = MultipleChoiceNew(config)
        /\ choice_last_' = [NoCall EXCEPT !.op = "new", !.config = config,
                                           !.before = choice_]
        /\ UNCHANGED <<regVars, loopVars, toggleVars, startVars, screenVars>>

\* MultipleChoice::updateStateFromKnob
MC_UpdateStateFromKnob ==
    \E position \in ChoicePositions :
        /\ choice_ # NoChoice
        /\ LET u == MultipleChoiceUpdateStateFromKnob(choice_,
                        [id |-> choice_.app_id, current_position |-> position])
           IN  /\ choice_' = u.inst
               /\ choice_last_' = [NoCall EXCEPT !.op = "update",
                                                  !.config = choice_last_.config,
                                                  !.position = position,
                                                  !.before = choice_,
                                                  !.event = u.event,
                                                  !.pushed = u.pushed]
        /\ UNCHANGED <<regVars, loopVars, toggleVars, startVars, screenVars>>

\* MultipleChoice::setState with {"selected_index": selected_index}
MC_SetState ==
    \E selected_index \in ChoiceIndexes :
        /\ choice_ # NoChoice
        /\ choice_' = MultipleChoiceSetState(choice_, selected_index)
        /\ choice_last_' = [NoCall EXCEPT !.op = "setState",
                                           !.config = choice_last_.config,
                                           !.position = selected_index,
                                           !.before = choice_]
        /\ UNCHANGED <<regVars, loopVars, toggleVars, startVars, screenVars>>

NextChoice ==
    \/ MC_New
    \/ MC_UpdateStateFromKnob
    \/ MC_SetState

SpecChoice == Init /\ [][NextChoice]_vars

\* ------------------------------------------------- the start of RootTask
\* RootTask::RootTask: configuration_ is the pointer it is given,
\* component_manager_(nullptr)
R_New ==
    \E configuration \in BOOLEAN :
        /\ startup_.pc = "constructor"
        /\ startup_' = [startup_ EXCEPT !.pc = "run",
                                        !.configuration_ = configuration,
                                        !.component_manager_ = FALSE]
        /\ UNCHANGED <<regVars, loopVars, toggleVars, choiceVars,
                       screenVars>>

\* RootTask::run up to the wait for the configuration: the callbacks are
\* registered with the protocol
R_RegisterCallbacks ==
    /\ startup_.pc = "run"
    /\ ~startup_.crashed
    /\ startup_' = [startup_ EXCEPT !.pc = "wait", !.registered = TRUE]
    /\ UNCHANGED <<regVars, loopVars, toggleVars, choiceVars,
                       screenVars>>

\* "is_configuration_loaded = configuration_ != nullptr" under mutex_
R_WaitConfiguration ==
    /\ startup_.pc = "wait"
    /\ ~startup_.crashed
    /\ startup_' = [startup_ EXCEPT
                      !.pc = "delay",
                      !.is_configuration_loaded = startup_.configuration_]
    /\ UNCHANGED <<regVars, loopVars, toggleVars, choiceVars,
                       screenVars>>

\* vTaskDelay(50 ms), then the test of the while loop
R_Delay ==
    /\ startup_.pc = "delay"
    /\ ~startup_.crashed
    /\ startup_' = [startup_ EXCEPT
                      !.pc = IF startup_.is_configuration_loaded
                             THEN "construct" ELSE "wait"]
    /\ UNCHANGED <<regVars, loopVars, toggleVars, choiceVars,
                       screenVars>>

\* "component_manager_ = new ComponentManager(mutex_)"
R_Construct ==
    /\ startup_.pc = "construct"
    /\ ~startup_.crashed
    /\ startup_' = [startup_ EXCEPT !.pc = "loop",
                                    !.component_manager_ = TRUE]
    /\ UNCHANGED <<regVars, loopVars, toggleVars, choiceVars,
                       screenVars>>

\* the protocol's task dispatches an app_component message to the callback
\* and component_manager_ is set
D_AppComponent ==
    \E config \in Configs :
        /\ startup_.registered
        /\ ~startup_.crashed
        /\ startup_.component_manager_
        /\ AppComponentCallbackWith(config)

\* the same while component_manager_ is null: "component_manager_->
\* createComponent(...)" is a call through a null pointer, after which the
\* firmware has stopped or goes on
D_AppComponentNull ==
    \E crashed \in BOOLEAN :
        /\ startup_.registered
        /\ ~startup_.crashed
        /\ ~startup_.component_manager_
        /\ startup_' = [startup_ EXCEPT !.null_call = TRUE,
                                        !.crashed = crashed]
        /\ UNCHANGED <<regVars, loopVars, toggleVars, choiceVars,
                       screenVars>>

NextStartup ==
    \/ R_New
    \/ R_RegisterCallbacks
    \/ R_WaitConfiguration
    \/ R_Delay
    \/ R_Construct
    \/ D_AppComponent
    \/ D_AppComponentNull

SpecStartup == Init /\ [][NextStartup]_vars

\* ------------------------------------------- the screen's engagement
Max(a, b) == IF a >= b THEN a ELSE b

\* "if (awake_until < millis() + t) awake_until = millis() + u", in the
\* width of millis()
ScreenExtend(awake_until, now, t, u) ==
    IF awake_until < (now + t) % ScreenClockMod
    THEN (now + u) % ScreenClockMod
    ELSE awake_until

\* the calibration trigger of one tick
ScreenCalibration(sc, calibration) ==
    IF calibration
    THEN [sc EXCEPT !.awake_until = (sc.millis + sc.awake_until)
                                        % ScreenClockMod,
                    !.has_been_engaged = TRUE]
    ELSE sc

\* the proximity report of one tick: "RangeStatus < 3 && RangeMilliMeter <
\* 200" is near
ScreenProximity(sc, proximity) ==
    IF proximity = "near"
    THEN [sc EXCEPT !.has_been_engaged = TRUE,
                    !.awake_until =
                        ScreenExtend(sc.awake_until, sc.millis,
                                     KNOB_ENGAGED_TIMEOUT_NONE_PHYSICAL,
                                     KNOB_ENGAGED_TIMEOUT_NONE_PHYSICAL)]
    ELSE sc

\* the knob report of one tick: a changed rounded position engages; then the
\* brightness for a screen that is not engaged (with the light sensor and
\* settings_.screen.dim it follows the light, otherwise it is max_bright)
ScreenKnob(sc, knob, timeout, dim, light) ==
    LET t == Max(KNOB_ENGAGED_TIMEOUT_PHYSICAL \div 2, timeout)
        moved ==
            IF knob = "moved"
            THEN [sc EXCEPT !.has_been_engaged = TRUE,
                            !.awake_until =
                                ScreenExtend(sc.awake_until, sc.millis, t, t)]
            ELSE sc
    IN  IF knob = "none" THEN sc
        ELSE IF moved.has_been_engaged THEN moved
        ELSE IF dim THEN [moved EXCEPT !.brightness = light]
        ELSE [moved EXCEPT !.brightness = "max"]

\* RootTask::updateHardware: a short or long press seen for the first time
ScreenButton(sc, button, timeout) ==
    IF button = "pressed"
    THEN [sc EXCEPT !.has_been_engaged = TRUE,
                    !.awake_until =
                        ScreenExtend(
                            sc.awake_until, sc.millis,
                            Max(KNOB_ENGAGED_TIMEOUT_PHYSICAL \div 2, timeout),
                            Max(KNOB_ENGAGED_TIMEOUT_PHYSICAL, timeout))]
    ELSE sc

\* the end of the tick: an engaged screen is at max_bright with the strain
\* sensor up, and past awake_until it stops being engaged
ScreenTimeout(sc) ==
    IF sc.has_been_engaged
    THEN LET up == IF sc.brightness # "max"
                   THEN [sc EXCEPT !.brightness = "max", !.strain = "up"]
                   ELSE sc
         IN  IF up.millis > up.awake_until
             THEN [up EXCEPT !.has_been_engaged = FALSE, !.strain = "down",
                             !.cleared = TRUE]
             ELSE up
    ELSE sc

\* one iteration of the loop of RootTask::run with what its queues hold,
\* and the delay at its end, which is one unit of the clock: no tick skips
\* a value of the clock
ScreenTick ==
    \E calibration \in BOOLEAN, proximity \in {"none", "near", "far"},
       knob \in {"none", "same", "moved"}, button \in {"none", "pressed"},
       timeout \in ScreenTimeouts, dim \in BOOLEAN,
       light \in {"zero", "target", "max"} :
        LET signal == calibration \/ proximity = "near" \/ knob = "moved"
                      \/ button = "pressed"
            start == [screen_ EXCEPT !.signal = signal, !.cleared = FALSE]
            sc == ScreenTimeout(
                    ScreenButton(
                      ScreenKnob(
                        ScreenProximity(
                          ScreenCalibration(start, calibration), proximity),
                        knob, timeout, dim, light),
                      button, timeout))
        IN  /\ screen_' = [sc EXCEPT !.millis = (sc.millis + 1)
                                                 % ScreenClockMod]
            /\ UNCHANGED <<regVars, loopVars, toggleVars, choiceVars,
                           startVars>>

NextScreen == ScreenTick

SpecScreen == Init /\ [][NextScreen]_vars

\* the loop never stops
SpecScreenFair == SpecScreen /\ WF_vars(ScreenTick)

\* ------------------------------------------------------------ the claims
\* the registry's fields, as the claims speak of them
registry == <<components_, heap, active_component_, component_mode_>>

\* the entries of the registry that hold the active instance
ActiveEntries == {e \in components_ : e.ptr = active_component_}

\* the operation that ran last was a successful setActiveComponent, called
\* directly or by the message callback
Activated ==
    \/ last.op = "setActiveComponent" /\ last.ret
    \/ last.op = "app_component" /\ last.activated

\* C1: the active reference names no instance or one live instance, held by
\* at most one entry; right after setActiveComponent(id) succeeded the active
\* instance is the one registered under id, whatever was active before.
C1_SingleActive ==
    /\ active_component_ = NULL \/ active_component_ \in DOMAIN heap
    /\ Cardinality(ActiveEntries) <= 1
    /\ Activated =>
          /\ active_component_ # NULL
          /\ active_component_ = MapFind(components_, last.id)
          /\ ActiveEntries = {[key |-> last.id, ptr |-> active_component_]}

\* C1 witness: setActiveComponent succeeded while another instance was active
C1_Witness ==
    /\ last.op = "setActiveComponent"
    /\ last.ret
    /\ last.prevActive # NULL
    /\ last.prevActive # active_component_

\* no id has two entries
UniqueIds == \A e1, e2 \in components_ : e1.key = e2.key => e1 = e2

\* C2: the registry never holds two components under one id, and a
\* createComponent call for a registered id leaves the entries as they were
\* (same ids, same instances, same count) and hands the message to that
\* instance's configure.
C2_UniqueIds ==
    /\ []UniqueIds
    /\ [][(last'.op = "createComponent" /\ last'.id \in MapKeys(components_)) =>
            /\ components_' = components_
            /\ Cardinality(components_') = Cardinality(components_)
            /\ \E config \in Configs :
                  LET p == MapFind(components_, last'.id)
                      c == Configure(heap[p], config)
                  IN  /\ config.component_id = last'.id
                      /\ heap' = [heap EXCEPT ![p] = c.inst]
                      /\ last'.ret = c.ok]_vars

\* C2 witness: createComponent succeeded for the id of the instance that was
\* active, hence registered, before the call
C2_Witness ==
    /\ last.op = "createComponent"
    /\ last.ret
    /\ last.prevActive # NULL
    /\ last.prevActive = MapFind(components_, last.id)
    /\ Cardinality(components_) = NumIds

\* C3: when the callback of a component message got success from
\* createComponent, at its end the component registered under the message's
\* id is active and component mode is on.
C3_SuccessActivates ==
    (last.op = "app_component" /\ last.ret) =>
        /\ active_component_ # NULL
        /\ active_component_ = MapFind(components_, last.id)
        /\ heap[active_component_].app_id = last.id
        /\ component_mode_

\* C3 witness: the callback reconfigured a registered component that was not
\* the active one, and it is active now
C3_Witness ==
    /\ last.op = "app_component"
    /\ last.ret
    /\ last.prevActive # NULL
    /\ last.prevActive # active_component_
    /\ last.prevActive \in {e.ptr : e \in components_}
    /\ Cardinality(components_) = NumIds

\* a message createComponent is to refuse: no id, a type that is no component
\* type, or a payload that is not the one of the declared type
InvalidConfig(config) ==
    \/ config.component_id = EmptyId
    \/ config.type \notin {"TOGGLE", "MULTI_CHOICE"}
    \/ config.type = "TOGGLE" /\ config.which_component_config # "toggle_tag"
    \/ config.type = "MULTI_CHOICE"
          /\ config.which_component_config # "multi_choice_tag"

\* C4: createComponent returns failure and leaves the registry's entries as
\* they were for every message with an empty id, an unknown type or a payload
\* that does not match the declared type.
C4_InvalidConfigRejected ==
    [][last'.op = "createComponent" =>
          \A config \in Configs :
              (InvalidConfig(config) /\ CreateComponentWith(config)) =>
                  (~last'.ret /\ components_' = components_)]_vars

\* C5: setActiveComponent with an id that is not registered returns failure,
\* changes nothing of the registry (entries, instances, active reference,
\* component mode) and renders nothing.
C5_ActivateMissing ==
    [][(last'.op = "setActiveComponent"
            /\ last'.id \notin MapKeys(components_)) =>
          /\ ~last'.ret
          /\ registry' = registry
          /\ last'.renders = <<>>]_vars

\* C5 witness: setActiveComponent failed for an id that is not registered
\* while a component was active
C5_Witness ==
    /\ last.op = "setActiveComponent"
    /\ ~last.ret
    /\ last.id \in Ids
    /\ last.id \notin MapKeys(components_)
    /\ active_component_ # NULL
    /\ component_mode_

\* the report carries the identity of the active component
IdentityMatch(id) ==
    /\ active_component_ # NULL
    /\ id = heap[active_component_].app_id

\* C6: update with no active component or with a report whose identity tag
\* is not the active component's returns changed = false, forwards nothing,
\* requests nothing of the motor and changes no instance; what is forwarded
\* goes to the active component and carries its identity.
C6_UpdateIdentityGuard ==
    [][last'.op = "update" =>
          /\ ~IdentityMatch(last'.id) =>
                /\ ~last'.changed
                /\ last'.forwarded = NULL
                /\ last'.pushes = <<>>
                /\ registry' = registry
          /\ last'.forwarded # NULL =>
                /\ IdentityMatch(last'.id)
                /\ last'.forwarded = active_component_]_vars

\* C6 witness: a report with another identity arrived while a configured
\* multiple choice with two options was active, at a position that is not
\* its selection
C6_Witness ==
    /\ last.op = "update"
    /\ last.forwarded = NULL
    /\ active_component_ # NULL
    /\ last.id # heap[active_component_].app_id
    /\ last.id \in Ids
    /\ heap[active_component_].configured_
    /\ heap[active_component_].options_count = 2

\* C7: destroyComponent of a registered id removes that entry and no other;
\* the active reference is cleared when it held the destroyed instance, with
\* nothing activated instead, and is kept when it held another one.
C7_DestroyRegistered ==
    [][(last'.op = "destroyComponent" /\ last'.id \in MapKeys(components_)) =>
          LET p == MapFind(components_, last'.id) IN
          /\ last'.ret
          /\ components_' = components_ \ {[key |-> last'.id, ptr |-> p]}
          /\ MapKeys(components_') = MapKeys(components_) \ {last'.id}
          /\ active_component_ = p => active_component_' = NULL
          /\ active_component_ # p => active_component_' = active_component_]_vars

\* C7 witness: the active component was destroyed while another one stays
\* registered, and none is active
C7_Witness ==
    /\ last.op = "destroyComponent"
    /\ last.ret
    /\ last.prevActive # NULL
    /\ active_component_ = NULL
    /\ components_ # {}

\* C8: destroyComponent of an id that is not registered returns failure and
\* leaves the entries, the instances and the active reference as they were.
C8_DestroyMissing ==
    [][(last'.op = "destroyComponent"
            /\ last'.id \notin MapKeys(components_)) =>
          /\ ~last'.ret
          /\ components_' = components_
          /\ heap' = heap
          /\ active_component_' = active_component_]_vars

\* C8 witness: destroyComponent failed for an unregistered id while another
\* component was registered and active
C8_Witness ==
    /\ last.op = "destroyComponent"
    /\ ~last.ret
    /\ last.id \in Ids
    /\ last.id \notin MapKeys(components_)
    /\ active_component_ # NULL
    /\ last.prevActive = active_component_

\* C9: every successful setActiveComponent, whoever called it, comes with
\* exactly one render of the newly active component and exactly one request
\* to push its motor profile.
C9_ActivationRendersAndPushes ==
    Activated =>
        /\ last.renders = <<active_component_>>
        /\ last.pushes = <<heap[active_component_].motor_config>>

\* C10: under every interleaving of the protocol-receive path and the
\* supervisory task, no structural operation is inside its accesses to the
\* map or the active reference while update is inside its own.
C10_MutualExclusion == ~(InRegionP /\ InRegionS)

\* C11: the render a structural operation triggers never runs while that
\* operation holds the component lock
C11_RenderOutsideLock == ~(Rendering /\ component_mutex_ = "P")

\* C12: of the k >= 1 profiles requested between two loopTicks the later
\* loopTick applies exactly one, the one requested last; a loopTick that
\* finds no request applies nothing.
C12_Coalescing ==
    applied.out = IF applied.requests = <<>> THEN <<>>
                  ELSE <<applied.requests[Len(applied.requests)]>>

C12_Witness ==
    /\ Len(applied.requests) >= 2
    /\ applied.requests[1] # applied.requests[Len(applied.requests)]
    /\ applied.out = <<applied.requests[Len(applied.requests)]>>

\* the gate's rule on the state it is asked about
IntervalElapsed ==
    (millis - last_broadcast_time_) % TimeMod >= max_broadcast_interval_

PositionChanged ==
    Abs(latest_state_.sub_position_unit
          - last_broadcast_state_.sub_position_unit)
        >= position_change_threshold_

PressChanged == latest_state_.press_nonce # last_broadcast_state_.press_nonce

IdentityChanged == latest_state_.id # last_broadcast_state_.id

\* the step in which the cycle asks the gate
GateStep == pcT = "gate" /\ pcT' = "publishState"

C15_HardFloor ==
    [][(GateStep /\ tick'.published) =>
          since >= max_broadcast_interval_]_vars

\* a publish of the rest state: the gate has published before
C15_Witness ==
    /\ pcT = "publishState"
    /\ tick.published
    /\ last_broadcast_state_ = ZeroState

\* a change the gate has not published: the position or the identity of the
\* latest state differs from the snapshot (publishState rewrites the nonce)
Stale == PositionChanged \/ IdentityChanged

\* no report is waiting in the queue
QueueEmpty == ~knob_state_queue_.full

\* C16: a latest state that differs from the snapshot by a change condition
\* is published in the end (or a later state is), also when no further report
\* arrives after it: once the reports have ceased, a stale snapshot does not
\* stay stale.
C16_NoStarvation == (<>[]QueueEmpty) => (Stale ~> ~Stale)

\* C17: a request for the current state is answered with latest_state_ under
\* the current press count, whatever the gate would decide, and the answer
\* leaves the gate's snapshot and time of last send as they were.
C17_RequestBypassesGate ==
    [][wire'.kind = "reply" =>
          /\ wire'.state = [latest_state_ EXCEPT !.press_nonce = press_count_]
          /\ UNCHANGED gateVars]_vars

\* answered while the interval has not elapsed and nothing has changed
C17_Witness ==
    /\ wire.kind = "reply"
    /\ ~IntervalElapsed
    /\ since < max_broadcast_interval_
    /\ ~(PositionChanged \/ PressChanged \/ IdentityChanged)

\* C19: in a cycle the gate is asked only after that cycle's loopTick
C19_GateAfterLoopTick == tick.gate => tick.flushed

\* C13: no component operation (configure, knob update, state change) writes
\* a profile to the motor task's queue: with components alone at work the
\* queue stays empty.
C13_NoDirectMotorWrite == motor_task_queue_.items = <<>>

\* C20: createComponent with a registered id and a type other than the
\* registered instance's type returns failure and leaves the instance (type,
\* configuration, state) as it was, for Toggle and for MultipleChoice.
C20_TypeImmutable ==
    [][last'.op = "createComponent" =>
          \A config \in Configs :
              LET p == MapFind(components_, config.component_id) IN
              (/\ p # NULL
               /\ heap[p].type # config.type
               /\ CreateComponentWith(config)) =>
                  (~last'.ret /\ heap'[p] = heap[p])]_vars

\* C18: the component-mode flag governs the dispatch of a drained report: the
\* legacy subsystem receives a report only while component mode is off
C18_DispatchByModeFlag == LegacyDispatch => ~component_mode_

\* ------------------------------------------------ claims on a MultipleChoice
\* the i-th option submitted with a payload
Submitted(config, i) == Options(config.options_count)[i]

\* C24: a MultipleChoice configured with more than 20 options is created with
\* exactly the first 20 submitted options stored in order: the stored count is
\* 20, selecting index i in 0..19 yields the (i+1)-th submitted option, and a
\* knob report for any index above 19 selects index 19.
C24_FirstTwentyStored ==
    choice_last_.config.options_count > 20 =>
        /\ choice_.configured_
        /\ choice_.options_count = 20
        /\ \A i \in 0 .. 19 :
               get_selected_text([choice_ EXCEPT !.current_position = i])
                   = Submitted(choice_last_.config, i + 1)
        /\ (choice_last_.op = "update" /\ choice_last_.position > 1900)
               => choice_.current_position = 19

\* 25 options, a report for index 30: index 19, the 20th submitted option
C24_Witness ==
    /\ choice_last_.op = "update"
    /\ choice_last_.config.options_count = 25
    /\ choice_last_.position = 3000
    /\ choice_.current_position = 19
    /\ get_selected_text(choice_) = Submitted(choice_last_.config, 20)

\* an integer nearest to a position given in hundredths
Nearest(p100, r) == 2 * Abs(100 * r - p100) <= 100

\* r clamped into [0, N-1]
Clamped(r, N) == IF r < 0 THEN 0 ELSE IF r > N - 1 THEN N - 1 ELSE r

\* C25: for a MultipleChoice with N stored options the selected index lies in
\* [0, N-1] after construction, for every initial_index, and after every knob
\* update, and the index after a knob update is the reported position rounded
\* to the nearest integer and then clamped into [0, N-1].
C25_IndexInRange ==
    choice_.configured_ =>
        /\ choice_.current_position \in 0 .. (choice_.options_count - 1)
        /\ choice_last_.op = "update" =>
               \E r \in -2 .. 31 :
                   /\ Nearest(choice_last_.position, r)
                   /\ choice_.current_position
                          = Clamped(r, choice_.options_count)

\* C26: a knob update returns changed = true only when the selected index
\* differs from the one before; a report that resolves to the selected index
\* returns changed = false, requests no motor push and leaves the component
\* as it was; when the index changes the event carries the component's id and
\* the new index, and the motor profile's position is the new index.
C26_ChangedOnlyOnChange ==
    choice_last_.op = "update" =>
        LET before == choice_last_.before
            event == choice_last_.event
            differs == choice_.current_position # before.current_position
        IN  /\ event.changed <=> differs
            /\ ~differs => (~choice_last_.pushed /\ choice_ = before)
            /\ differs =>
                   /\ event.app_id = choice_.app_id
                   /\ event.index = choice_.current_position
                   /\ choice_.motor_config.position = choice_.current_position

\* a report that moves the selection from 0 to 2, after one that did not move it
C26_Witness ==
    /\ choice_last_.op = "update"
    /\ choice_last_.before.current_position = 0
    /\ choice_last_.before.motor_config.position = 0
    /\ choice_last_.position = 200
    /\ choice_.current_position = 2
    /\ choice_last_.event.changed

\* a report that resolves to the index already selected
C26_WitnessSame ==
    /\ choice_last_.op = "update"
    /\ choice_last_.before.current_position = 2
    /\ choice_last_.position = 151
    /\ ~choice_last_.event.changed

\* ------------------------------------------------------ claims on profiles
\* C29: every motor profile a component synthesizes or pushes carries an
\* identity equal to that component's id, for every variant and every push
\* (initial configuration, activation, state change), so a knob report that
\* echoes the profile passes the identity check for that component only.
C29_ProfileCarriesId ==
    \A i \in 1 .. Len(motor_task_queue_.items) :
        motor_task_queue_.items[i].id = toggle_.app_id

\* ---------------------------------------------------- claims on the registry
\* C30: after deactivateAll no component is active and component mode is off;
\* the registered components and each one's configuration and state are as
\* before; with nothing active the call changes nothing.
C30_DeactivateAllEffect ==
    [][DeactivateAll =>
          /\ active_component_' = NULL
          /\ ~component_mode_'
          /\ components_' = components_
          /\ \A e \in components_ : heap'[e.ptr] = heap[e.ptr]
          /\ (active_component_ = NULL => registry' = registry)]_vars

\* ------------------------------------------------------- claims on a Toggle
\* C27: a Toggle with snap_point 0.5 that is OFF with the knob at 0.0 does not
\* flip when the knob is driven to 0.4 and back (it flips, once, only when the
\* knob is driven to 0.6); here its first step: the report of 0.4 is handled
\* and the Toggle is still OFF.
C27_Hysteresis ==
    [][(/\ TG_HandleKnobInput
        /\ ~toggle_.current_state_
        /\ toggle_.last_knob_position_ = 0
        /\ toggle_'.last_knob_position_ = 40) => ~toggle_'.current_state_]_vars

\* ------------------------------------------- claims on createComponent
\* the payload of a message is the one its declared type names
ValidPayload(config) ==
    \/ config.type = "TOGGLE" /\ config.which_component_config = "toggle_tag"
    \/ config.type = "MULTI_CHOICE"
          /\ config.which_component_config = "multi_choice_tag"

\* an instance has the id, the type and the settings of a message, the option
\* count limited to 20 and the index clamped, and the profile derived from them
HoldsSettings(inst, config) ==
    /\ inst.app_id = config.component_id
    /\ inst.type = config.type
    /\ CASE config.type = "TOGGLE" ->
                /\ inst.current_state_ = config.initial_state
                /\ inst.motor_config.position
                       = (IF config.initial_state THEN 1 ELSE 0)
         [] config.type = "MULTI_CHOICE" ->
                LET count == Min(config.options_count, 20)
                    index == Clamped(config.initial_index, count)
                IN  /\ inst.configured_
                    /\ inst.options_count = count
                    /\ \A i \in 1 .. count :
                           inst.options[i] = Submitted(config, i)
                    /\ inst.current_position = index
                    /\ inst.motor_config.position = index
                    /\ inst.motor_config.min_position = 0
                    /\ inst.motor_config.max_position = count - 1
         [] OTHER -> FALSE

\* C21: after createComponent(config) succeeds for an id that was not
\* registered, the instance found under config's id has the id, the type and
\* the type-specific settings of config, up to the declared clamping.
C21_CreateRoundTrip ==
    [][last'.op = "createComponent" =>
          \A config \in WideConfigs :
              (/\ MapFind(components_, config.component_id) = NULL
               /\ CreateComponentWith(config)
               /\ last'.ret) =>
                  LET p == MapFind(components_', config.component_id) IN
                  /\ p # NULL
                  /\ HoldsSettings(heap'[p], config)]_vars

\* C22: after createComponent(config2) succeeds for a registered id, the
\* instance under that id holds the settings of config2 and its motor profile
\* is the one derived from config2, for Toggle and for MultipleChoice.
C22_ReconfigureApplied ==
    [][last'.op = "createComponent" =>
          \A config \in WideConfigs :
              LET p == MapFind(components_, config.component_id) IN
              (/\ p # NULL
               /\ heap[p].type = config.type
               /\ ValidPayload(config)
               /\ CreateComponentWith(config)
               /\ last'.ret) => HoldsSettings(heap'[p], config)]_vars

\* C23: in every state of the registry, createComponent on a registered id
\* leaves the entry bound to the same instance and the active reference as it
\* was, and the same message applied once more leaves the registry as the
\* first application left it.
C23_ReconfigureIdempotent ==
    \A config \in WideConfigs :
        LET p == MapFind(components_, config.component_id)
            once == createComponent(Reg, config)
            twice == createComponent(once, config)
        IN  p # NULL =>
                /\ once.components_ = components_
                /\ once.active_component_ = active_component_
                /\ p \in DOMAIN once.heap
                /\ twice.components_ = once.components_
                /\ twice.heap = once.heap
                /\ twice.active_component_ = once.active_component_
                /\ twice.ret = once.ret

\* a Toggle that is active was reconfigured, with success, to the other state
C23_Witness ==
    /\ last.op = "createComponent"
    /\ last.ret
    /\ last.prevActive # NULL
    /\ active_component_ = last.prevActive
    /\ MapFind(components_, last.id) = active_component_
    /\ heap[active_component_].type = "TOGGLE"
    /\ heap[active_component_].current_state_

\* C28: createComponent reports a MultipleChoice message with zero options
\* as a failure.
C28_ZeroOptionsRejected ==
    [][last'.op = "createComponent" =>
          \A config \in WideConfigs :
              (/\ config.type = "MULTI_CHOICE"
               /\ config.which_component_config = "multi_choice_tag"
               /\ config.options_count = 0
               /\ CreateComponentWith(config)) => ~last'.ret]_vars

\* ------------------------------------------------ more claims on the registry
\* C31: setActiveComponent(id), successful or not, leaves the registered ids,
\* the instance bound to each id and every registered component's
\* configuration and state as they were.
C31_ActivationFrame ==
    [][last'.op = "setActiveComponent" =>
          /\ components_' = components_
          /\ \A e \in components_ :
                 e.ptr \in DOMAIN heap' /\ heap'[e.ptr] = heap[e.ptr]]_vars

\* the active reference was repointed from one registered component to another
C31_Witness ==
    /\ last.op = "setActiveComponent"
    /\ last.ret
    /\ last.prevActive # NULL
    /\ last.prevActive # active_component_
    /\ \E e \in components_ : e.ptr = last.prevActive
    /\ \E e \in components_ : e.ptr = active_component_

\* C35: whenever createComponent returns failure, for a new id or for a
\* registered one, the registered components, their configuration and state,
\* the active reference and the component-mode flag are after the call, and
\* after the message handler, what they were before, and no render and no
\* motor push was requested.
C35_FailureChangesNothing ==
    [][(last'.op \in {"createComponent", "app_component"} /\ ~last'.ret) =>
          /\ registry' = registry
          /\ last'.renders = <<>>
          /\ last'.pushes = <<>>]_vars

\* the handler failed on a registered id while a component was active
C35_Witness ==
    /\ last.op = "app_component"
    /\ ~last.ret
    /\ last.id \in MapKeys(components_)
    /\ active_component_ # NULL
    /\ component_mode_

\* createComponent failed for an id that is not registered
C35_WitnessNew ==
    /\ last.op = "createComponent"
    /\ ~last.ret
    /\ last.id # EmptyId
    /\ last.id \notin MapKeys(components_)
    /\ components_ # {}

\* C36: in every reachable state an active reference refers to a component
\* that is registered in the map, under its own id, whatever sequence of add,
\* clear, createComponent, destroyComponent, setActiveComponent and
\* deactivateAll ran.
C36_ActiveIsRegistered ==
    active_component_ # NULL =>
        \E e \in components_ :
            /\ e.ptr = active_component_
            /\ e.key = heap[active_component_].app_id

\* C37: after every completed registry operation and message handler,
\* component mode is on if and only if the registry has an active component.
C37_ModeAgreesWithActive ==
    component_mode_ <=> (active_component_ # NULL)

\* --------------------------------------------- more claims on the components
\* a profile's bounds are in order and its position is inside them
WellFormed(config) ==
    /\ config.min_position <= config.max_position
    /\ config.min_position <= config.position
    /\ config.position <= config.max_position

\* C39: every motor profile a component synthesizes is well-formed, after
\* construction and after every knob update, for every accepted configuration
\* (a MultipleChoice with zero, one or more than 20 options and any
\* initial_index included).
C39_ProfileWellFormed ==
    choice_.configured_ => WellFormed(choice_.motor_config)

\* C32: after setState with a well-formed state naming a valid value (here
\* MultipleChoice: {"selected_index": i} with i in range) and no knob input
\* in between, getState reports that value; a state with an invalid value
\* leaves the component's state as it was.
C32_StateRoundTrip ==
    (choice_last_.op = "setState" /\ choice_.configured_) =>
        IF choice_last_.position \in 0 .. (choice_.options_count - 1)
        THEN MultipleChoiceGetState(choice_).selected_index
                 = choice_last_.position
        ELSE choice_ = choice_last_.before

\* ----------------------------------------------- more claims on the Toggle
\* C33: the profile a Toggle pushed last has min_position 0, max_position 1
\* and position 1 if the toggle is ON and 0 if it is OFF, and the hue it
\* rendered last is the configured on-hue when ON and the configured off-hue
\* when OFF, after configure and after every state change by knob, button or
\* setState.
C33_ToggleProfileTracksState ==
    /\ toggle_io_.motor # <<>> =>
           /\ toggle_io_.motor[1].min_position = 0
           /\ toggle_io_.motor[1].max_position = 1
           /\ toggle_io_.motor[1].position
                  = (IF toggle_.current_state_ THEN 1 ELSE 0)
    /\ toggle_io_.hue # <<>> =>
           toggle_io_.hue[1] = (IF toggle_.current_state_
                                THEN toggle_io_.hues.on
                                ELSE toggle_io_.hues.off)

\* a configured Toggle that is ON, with the profile and the hue it sent
C33_Witness ==
    /\ toggle_.current_state_
    /\ toggle_io_.hues = [off |-> 330, on |-> 120]
    /\ toggle_io_.motor # <<>>
    /\ toggle_io_.motor[1].position = 1
    /\ toggle_io_.hue = <<120>>
    /\ toggle_io_.elapsed = 0

\* C40: a flip of a Toggle by knob input or button press comes at least
\* DEBOUNCE_TIME_MS after the flip by knob or button before it, and a knob
\* report that arrives less than DEBOUNCE_TIME_MS after that flip changes
\* neither the state nor the remembered knob position.
C40_Debounce ==
    [][/\ (/\ toggle_'.current_state_ # toggle_.current_state_
           /\ toggle_io_.elapsed # -1
           /\ TG_HandleKnobInput \/ TG_HandleButtonInput)
          => toggle_io_.elapsed >= DEBOUNCE_TIME_MS
       /\ (/\ toggle_io_.elapsed \in 0 .. (DEBOUNCE_TIME_MS - 1)
           /\ TG_HandleKnobInput)
          => (/\ toggle_'.current_state_ = toggle_.current_state_
              /\ toggle_'.last_knob_position_
                     = toggle_.last_knob_position_)]_vars

\* a flip at clock 0: the flip before it was at clock DEBOUNCE_TIME_MS or
\* later, before the clock turned
C40_Witness ==
    /\ toggle_io_.elapsed = 0
    /\ toggle_io_.last_state_change_time_ = 0
    /\ toggle_io_.now = 0
    /\ toggle_.last_knob_position_ = 60
    /\ toggle_.current_state_

\* ------------------------------------------------- claims on the start-up
\* C38: under every interleaving of the start of RootTask::run with the
\* protocol's task, the app_component callback never runs while
\* component_manager_ is null.
C38_RegistryBeforeDispatch == ~startup_.null_call

\* ------------------------------------------------- claims on the screen
\* C34: once the screen is engaged and no further engagement signal arrives,
\* the loop eventually clears has_been_engaged (and powers the strain sensor
\* down); while has_been_engaged is true at the end of a tick the brightness
\* is the configured maximum.
C34_EngagementTimesOut ==
    []<>(screen_.signal \/ ~screen_.has_been_engaged)

\* the parts of C34 on one tick: an engaged screen is at the maximum
\* brightness at the end of the tick, and the tick that clears
\* has_been_engaged powers the strain sensor down
C34_EngagedIsBright ==
    /\ screen_.has_been_engaged => screen_.brightness = "max"
    /\ screen_.cleared => (~screen_.has_been_engaged
                           /\ screen_.strain = "down")

====
